---- MODULE Spec2Model ----
(***************************************************************************)
(* Matrix Watcher online pipeline: pattern tracker, scheduler, event bus,  *)
(* cluster detector, anomaly index, JSONL store and threshold detector.    *)
(* Each component has its own next-state relation and specification over   *)
(* the shared variable tuple; the variables of the other components stay   *)
(* unchanged under it.                                                     *)
(***************************************************************************)
EXTENDS Integers, Sequences, FiniteSets, TLC

(***************************************************************************)
(* Bounds of the model.                                                    *)
(***************************************************************************)
\* wall clock at construction (time.time() is far from 0)
StartTime == 1000000
\* number of RecordCondition calls explored
MaxRecorded == 3
\* capacity of the condition deque in the model (deque(maxlen=5000))
RecentConditionsMaxLen == 2
\* number of wall-clock advances explored by the tracker
MaxTrackerTicks == 2
\* capacity of Pattern.event_locations in the model ([-1000:])
EventLocationsCap == 1
\* number of ScheduledTask objects created (register_task calls)
MaxTaskObjs == 3
\* max_concurrent of the scheduler in the model (default 10)
MaxConcurrent == 2
\* number of wall-clock advances explored by the scheduler
MaxSchedTicks == 1
\* number of finished runs of one task object after which it is no longer dispatched
MaxRuns == 2
\* number of unregister_task, pause_task, resume_task and stop calls explored
MaxControlCalls == 2
\* number of safe_collect calls explored
MaxSafeCollects == 3
\* number of health monitor calls explored
MaxHealthOps == 8
\* number of subscribe calls explored
MaxSubscribes == 2
\* number of publish calls explored
MaxPublished == 3
\* max_buffer_size of the bus in the model (default 1000)
MaxBufferSize == 2
\* number of add_anomaly calls explored
MaxAdded == 6
\* number of wall-clock advances explored by the cluster detector
MaxClusterTicks == 2
\* number of Calculate steps explored
MaxCalculated == 3
\* number of wall-clock advances explored by the anomaly index
MaxIndexTicks == 2
\* number of write_record calls explored
MaxWritten == 5
\* buffer_size of the storage manager in the model (default 1000)
BufferSize == 2
\* max_file_size_bytes in the model, counted in records (default 100 MB)
MaxFileSize == 2
\* number of day changes explored
MaxDayChanges == 1
\* number of process calls explored
MaxProcessed == 3
\* number of anomalies the detector returns to on_data
MaxReturned == 4
\* number of times the tracker is constructed again on its storage path
MaxRestarts == 1
\* the pattern-probability scenario: number of conditions recorded, and the
\* distance in seconds between their timestamps
ScenarioConditions == 10
ScenarioStep == 100
\* number of wall-clock advances explored by the threshold detector
MaxDetectorTicks == 1
\* number of check_and_calibrate calls, of wall-clock advances and of
\* constructions of the auto-calibrator explored
MaxCalibCalls == 3
MaxCalibTicks == 3
MaxCalibRestarts == 1
\* flush_buffer calls
MaxFlushCalls == 1
\* publish calls on the bus with the publishing subscriber, nested ones included
MaxNestedPublished == 4
\* anomalies one process call publishes
MaxAnomaliesPerEvent == 2

(***************************************************************************)
(* Program constants.                                                      *)
(***************************************************************************)
LOOKBACK_WINDOW_HOURS == 72

None == "None"
\* float('inf'), kept apart from every time difference (which are positive)
Inf == -1

VARIABLES
    now,                 \* time.time()
    \* ---- HistoricalPatternTracker ----
    recent_conditions,   \* self._recent_conditions
    patterns,            \* self._patterns, keyed by <<condition_key, event_type>>
    tracker_ticks,       \* number of clock advances taken
    cond_serial,         \* number of conditions recorded so far (instance ids)
    credit,              \* credit[<<id, E>>]: increments of event_after_count caused by instance id
    replayed,            \* TRUE once the "already matched" skip has been taken for a condition in its window
    scenario_log,        \* the last two check_events calls of the pattern-probability scenario
    tracker_disk         \* patterns.json and recent_conditions.json, the tracker as it was at the last save, the restarts so far, the last of save and load

VARIABLES
    \* ---- Scheduler ----
    task_objs,           \* every ScheduledTask object created so far, by object id
    tasks,               \* self._tasks in dict order: <<[name, obj]>>
    sched_running,       \* self._running
    stop_event,          \* self._stop_event
    semaphore,           \* free slots of self._semaphore
    loop_pc,             \* position of the _run_loop thread
    ready_tasks,         \* ready_tasks still to be dispatched in the current pass
    worker,              \* worker[obj]: position of the _run_task thread of that object
    sched_ticks,         \* number of clock advances taken
    control_calls,       \* number of unregister, pause, resume and stop calls made
    pause_pending        \* names paused by a pause_task that returned True, with no resume_task or (un)registration of the name since

VARIABLES
    \* ---- EventBus ----
    subscriptions,       \* self._subscriptions in dict order
    total_published,     \* self._total_published
    total_delivered,     \* self._total_delivered
    total_dropped,       \* self._total_dropped
    subscribe_calls,     \* number of subscribe calls so far (the ids handed out)
    removed_any,         \* TRUE once unsubscribe has removed a subscription
    bus_last             \* the last bus call: its argument, callbacks invoked, result

VARIABLES
    \* ---- ClusterDetector ----
    recent_anomalies,     \* self._recent_anomalies
    precursor_candidates, \* self._precursor_candidates
    sources_seen,         \* number of distinct sensor sources handed in so far
    added,                \* number of add_anomaly calls so far
    cluster_ticks,        \* number of clock advances taken
    cluster_last          \* the last add_anomaly call: its anomaly and what it returned

VARIABLES
    \* ---- AnomalyIndexCalculator ----
    index_history,         \* self._history: the snapshots returned so far
    baseline_cache,        \* self._baseline_cache["index"] as <<numerator, denominator>>
    last_baseline_update,  \* self._last_baseline_update
    index_calls,           \* number of Calculate steps taken
    index_ticks            \* number of clock advances taken

VARIABLES
    \* ---- StorageManager and JSONLStorage, one sensor ----
    store_buffer,          \* self._buffers[sensor_name]
    store_files,           \* the sensor's directory: the set of [name, records]
    file_counters,         \* self._file_counters, by day
    today,                 \* date.today() as a day number
    appended,              \* every record handed to write_record, in call order
    store_last             \* the last storage call: whether it returned, what it returned

VARIABLES
    \* ---- ThresholdDetector ----
    det_rules,             \* self._rules; <<>> before construction
    det_history,           \* self._history, by parameter key
    anomaly_count,         \* self._anomaly_count
    det_last,              \* the last process call: its _check_rule calls and its result
    seen_equal_window,     \* a change rule was checked on a window of equal samples
    seen_zero_first,       \* a change rule was checked on a window starting with 0
    det_processed,         \* number of process calls so far
    det_ticks              \* number of clock advances taken

\* publish running in several threads: each thread's position in publish, the
\* subscription objects taken out of the table, and the calls made so far
VARIABLES
    threads,
    detached,
    publish_calls,
    callbacks_returned

\* a sensor wrapped by safe_collect
VARIABLES
    sensor_status,          \* self._status
    sensor_counts,          \* _error_count, _consecutive_errors, _success_count
    sensor_last_reading,    \* self._last_reading
    sensor_calls,           \* number of safe_collect calls made
    sensor_last             \* the last safe_collect call: its inputs, the collect calls it made, the events it published, its result

\* the health monitor
VARIABLES
    sensors_health,         \* self._sensors: None or the SensorHealth of each name
    disabled_fired,         \* number of on_sensor_disabled calls made for each name
    streak,                 \* failures of each name since its last success or enable_sensor
    health_ops,             \* number of calls made
    health_last             \* the last call

\* MatrixWatcher: the anomaly path from on_data to the pattern tracker
VARIABLES
    telegram,               \* self.telegram is set (a notification channel is configured)
    loop_queue,             \* _handle_anomaly coroutines handed to the event loop, in order
    watcher_log             \* anomalies returned by the detector so far, clusters emitted so far

\* AutoCalibrator and the files under logs/calibration
VARIABLES
    calibrator,             \* _last_calibration_check, _calibration_history, auto_apply
    calib_disk,             \* calibration_history.json, calibrated_thresholds.json, reports
    calib_start,            \* CalibrationTracker._start_time
    calib_log               \* the calls made so far and the last one

\* the two threads that call the pattern tracker
VARIABLES
    tracker_threads         \* position and locals of each call, the deque's mutation counter

\* a bus whose subscriber publishes from inside its callback
VARIABLES
    nest                    \* the table, the stack of running publish calls, the lock, the calls made

\* the thread that runs flush_buffer beside the publishing threads
VARIABLES
    flusher                 \* position and locals of the flush_buffer call

trackerVars == <<recent_conditions, patterns, tracker_ticks, cond_serial, credit, replayed,
                 scenario_log, tracker_disk>>
schedVars == <<task_objs, tasks, sched_running, stop_event, semaphore, loop_pc,
               ready_tasks, worker, sched_ticks, pause_pending, control_calls>>

busVars == <<subscriptions, total_published, total_delivered, total_dropped,
             subscribe_calls, removed_any, bus_last>>

clusterVars == <<recent_anomalies, precursor_candidates, sources_seen, added,
                 cluster_ticks, cluster_last>>

indexVars == <<index_history, baseline_cache, last_baseline_update, index_calls,
               index_ticks>>

storeVars == <<store_buffer, store_files, file_counters, today, appended, store_last>>
detectorVars == <<det_rules, det_history, anomaly_count, det_last, seen_equal_window,
                  seen_zero_first, det_processed, det_ticks>>

threadVars == <<threads, detached, publish_calls, callbacks_returned>>

sensorVars == <<sensor_status, sensor_counts, sensor_last_reading, sensor_calls, sensor_last>>

healthVars == <<sensors_health, disabled_fired, streak, health_ops, health_last>>

watcherVars == <<telegram, loop_queue, watcher_log>>

trackerThreadVars == <<tracker_threads>>

calibVars == <<calibrator, calib_disk, calib_start, calib_log>>

flushVars == <<flusher>>

nestVars == <<nest>>

notTrackerVars == <<schedVars, busVars, clusterVars, indexVars, storeVars, detectorVars, threadVars, sensorVars, healthVars, watcherVars, trackerThreadVars, calibVars, flushVars, nestVars>>
notSchedVars == <<trackerVars, busVars, clusterVars, indexVars, storeVars, detectorVars, threadVars, sensorVars, healthVars, watcherVars, trackerThreadVars, calibVars, flushVars, nestVars>>
notBusVars == <<trackerVars, schedVars, clusterVars, indexVars, storeVars, detectorVars, threadVars, sensorVars, healthVars, watcherVars, trackerThreadVars, calibVars, flushVars, nestVars>>
notClusterVars == <<trackerVars, schedVars, busVars, indexVars, storeVars, detectorVars, threadVars, sensorVars, healthVars, watcherVars, trackerThreadVars, calibVars, flushVars, nestVars>>
notIndexVars == <<trackerVars, schedVars, busVars, clusterVars, storeVars, detectorVars, threadVars, sensorVars, healthVars, watcherVars, trackerThreadVars, calibVars, flushVars, nestVars>>
notStoreVars == <<trackerVars, schedVars, busVars, clusterVars, indexVars, detectorVars, threadVars, sensorVars, healthVars, watcherVars, trackerThreadVars, calibVars, flushVars, nestVars>>

notHealthVars == <<trackerVars, schedVars, busVars, clusterVars, indexVars, storeVars,
                   detectorVars, threadVars, sensorVars, watcherVars, trackerThreadVars, calibVars, flushVars, nestVars>>

\* a sensor publishes its readings and errors on the bus
notSensorVars == <<trackerVars, schedVars, clusterVars, indexVars, storeVars, detectorVars,
                   threadVars, healthVars, subscriptions, total_delivered, total_dropped,
                   subscribe_calls, removed_any, bus_last, watcherVars, trackerThreadVars, calibVars, flushVars, nestVars>>

\* the detector publishes its anomalies on the bus
notDetectorVars == <<trackerVars, schedVars, clusterVars, indexVars, storeVars,
                     subscriptions, total_delivered, total_dropped, subscribe_calls,
                     removed_any, bus_last, threadVars, sensorVars, healthVars, watcherVars, trackerThreadVars, calibVars, flushVars, nestVars>>

vars == <<now, trackerVars, schedVars, busVars, clusterVars, indexVars, storeVars,
          detectorVars, threadVars, sensorVars, healthVars, watcherVars, trackerThreadVars, calibVars, flushVars, nestVars>>

(***************************************************************************)
(* Generic helpers.                                                        *)
(***************************************************************************)
Min(a, b) == IF a < b THEN a ELSE b
Max(a, b) == IF a > b THEN a ELSE b
Abs(a) == IF a < 0 THEN -a ELSE a

\* an optional value is the empty set (None) or a singleton
NoneOpt == {}
Some(x) == {x}
Get(o) == CHOOSE x \in o : TRUE

RECURSIVE DequeFromList(_, _)
\* deque(list, maxlen=n): the last n elements
DequeFromList(list, maxlen) ==
    IF Len(list) > maxlen THEN DequeFromList(Tail(list), maxlen) ELSE list

RECURSIVE GCD(_, _)
GCD(a, b) == IF b = 0 THEN a ELSE GCD(b, a % b)

\* a rational <<numerator, denominator>> of non-negative terms in lowest terms
Reduce(q) == IF q[1] = 0 THEN <<0, 1>> ELSE <<q[1] \div GCD(q[1], q[2]), q[2] \div GCD(q[1], q[2])>>

\* deque(maxlen=n).append(x): the oldest entry falls off the left end
DequeAppend(q, x, maxlen) ==
    IF Len(q) >= maxlen THEN Append(Tail(q), x) ELSE Append(q, x)

(***************************************************************************)
(* HistoricalPatternTracker                                                *)
(***************************************************************************)
\* self._event_definitions, in catalog (dict) order; two entries of the catalog
EventCatalog == <<"btc_pump_1h", "earthquake_strong">>
EventTypes == {EventCatalog[i] : i \in DOMAIN EventCatalog}

\* Condition values handed to record_condition: level and the source list of
\* the cluster (sensor sources are numbered)
ConditionInputs ==
    { [level |-> 2, sources |-> <<1, 2>>],
      [level |-> 2, sources |-> <<2, 1>>] }

\* how far a condition's timestamp (the anomaly's) may lie behind the clock
ConditionLags == {0, 100}

\* clock advances explored by the tracker, in seconds
TrackerTickSteps == {100, 72 * 3600}

\* Condition.to_key: "L{level}_" + "_".join(sorted(sources))
to_key(condition) ==
    <<condition.level, SortSeq(condition.sources, LAMBDA a, b : a < b)>>

\* Pattern(condition_key, event_type) with its dataclass defaults;
\* probabilities and the average are exact rationals <<numerator, denominator>>
NewPattern ==
    [ condition_count    |-> 0,
      event_after_count  |-> 0,
      avg_time_to_event  |-> <<0, 1>>,
      min_time_to_event  |-> Inf,
      max_time_to_event  |-> 0,
      actual_probability |-> <<0, 1>>,
      event_locations    |-> <<>> ]

\* mutant: the probability is left as it was
update_probability_stale(p) == p

\* Pattern.update_probability
update_probability(p) ==
    IF p.condition_count > 0
    THEN IF p.event_after_count >= p.condition_count
         THEN [p EXCEPT !.actual_probability = <<1, 1>>]
         ELSE [p EXCEPT !.actual_probability = <<p.event_after_count, p.condition_count>>]
    ELSE [p EXCEPT !.actual_probability = <<0, 1>>]

\* the loop of record_condition over the catalog, for one condition key
RECURSIVE RecordInCatalog(_, _, _)
RecordInCatalog(pats, key, i) ==
    IF i > Len(EventCatalog) THEN pats
    ELSE LET k  == <<key, EventCatalog[i]>>
             p0 == IF k \in DOMAIN pats THEN pats[k] ELSE NewPattern
             p1 == update_probability([p0 EXCEPT !.condition_count = @ + 1])
             pats1 == [x \in (DOMAIN pats) \cup {k} |-> IF x = k THEN p1 ELSE pats[x]]
         IN RecordInCatalog(pats1, key, i + 1)

\* HistoricalPatternTracker.record_condition, on a deque of the given maxlen
record_condition(c, timestamp, maxlen) ==
    /\ LET condition == [level |-> c.level, sources |-> c.sources, timestamp |-> timestamp]
           item == [condition |-> condition, timestamp |-> condition.timestamp,
                    matched_events |-> <<>>, id |-> cond_serial + 1]
       IN /\ recent_conditions' = DequeAppend(recent_conditions, item, maxlen)
          /\ patterns' = RecordInCatalog(patterns, to_key(condition), 1)
          /\ cond_serial' = cond_serial + 1

\* record_condition of a condition whose timestamp lies lag seconds back
RecordCondition(c, lag) ==
    /\ cond_serial < MaxRecorded
    /\ record_condition(c, now - lag, RecentConditionsMaxLen)
    /\ UNCHANGED <<now, tracker_ticks, credit, replayed>>
    /\ UNCHANGED notTrackerVars

InSeq(x, s) == \E i \in DOMAIN s : s[i] = x

\* mutant: the "already matched" test is dropped
AlreadyMatched_never(item, event_type) == FALSE

\* event.event_type in item.get("matched_events", [])
AlreadyMatched(item, event_type) == InSeq(event_type, item.matched_events)

\* mutant: the match is not counted
MatchPattern_not_counted(p, event, time_diff) == update_probability(p)

\* the statistics update of one pattern for one matching condition
MatchPattern(p, event, time_diff) ==
    LET p1 == [p EXCEPT !.event_after_count = @ + 1]
        locs == IF event.location # None
                THEN LET l == Append(p1.event_locations, event.location)
                     IN IF Len(l) > EventLocationsCap
                        THEN SubSeq(l, Len(l) - EventLocationsCap + 1, Len(l))
                        ELSE l
                ELSE p1.event_locations
        mn == IF p1.min_time_to_event = Inf THEN time_diff
              ELSE Min(time_diff, p1.min_time_to_event)
        mx == Max(time_diff, p1.max_time_to_event)
        n  == p1.event_after_count
        avg == Reduce(<<p1.avg_time_to_event[1] * (n - 1)
                            + time_diff * p1.avg_time_to_event[2],
                        p1.avg_time_to_event[2] * n>>)
    IN update_probability(
         [p1 EXCEPT !.event_locations = locs, !.min_time_to_event = mn,
                    !.max_time_to_event = mx, !.avg_time_to_event = avg])

\* HistoricalPatternTracker._match_event_with_conditions: the loop over the
\* deque from position i; st = [conds, pats, credit, replayed]
RECURSIVE MatchFrom(_, _, _)
MatchFrom(st, event, i) ==
    IF i > Len(st.conds) THEN st
    ELSE LET item == st.conds[i]
             time_diff == event.timestamp - item.condition.timestamp
             key == <<to_key(item.condition), event.event_type>>
             hit == /\ 0 < time_diff
                    /\ time_diff < LOOKBACK_WINDOW_HOURS * 3600
                    /\ ~AlreadyMatched(item, event.event_type)
                    /\ key \in DOMAIN st.pats
             in_window == 0 < time_diff /\ time_diff < LOOKBACK_WINDOW_HOURS * 3600
             st1 == IF hit
                    THEN [ conds |-> [st.conds EXCEPT ![i].matched_events =
                                          Append(@, event.event_type)],
                           pats  |-> [st.pats EXCEPT ![key] = MatchPattern(@, event, time_diff)],
                           credit |-> [st.credit EXCEPT ![<<item.id, event.event_type>>] = @ + 1],
                           replayed |-> st.replayed ]
                    ELSE IF in_window /\ AlreadyMatched(item, event.event_type)
                    THEN [st EXCEPT !.replayed = TRUE]
                    ELSE st
         IN MatchFrom(st1, event, i + 1)

\* the loop of check_events over the catalog; fired is the set of event types
\* whose check(sensor_data) returns true, has_loc whether the reading carries
\* latitude and longitude
RECURSIVE CheckFrom(_, _, _, _)
CheckFrom(st, fired, has_loc, j) ==
    IF j > Len(EventCatalog) THEN st
    ELSE LET et == EventCatalog[j]
             event == [timestamp |-> now, event_type |-> et,
                       location |-> IF et = "earthquake_strong" /\ has_loc
                                    THEN "loc" ELSE None]
         IN CheckFrom(IF et \in fired THEN MatchFrom(st, event, 1) ELSE st,
                      fired, has_loc, j + 1)

\* HistoricalPatternTracker.check_events
CheckEvents(fired, has_loc) ==
    /\ LET st == CheckFrom([conds |-> recent_conditions, pats |-> patterns,
                            credit |-> credit, replayed |-> replayed],
                           fired, has_loc, 1)
       IN /\ recent_conditions' = st.conds
          /\ patterns' = st.pats
          /\ credit' = st.credit
          /\ replayed' = st.replayed
    /\ UNCHANGED <<now, tracker_ticks, cond_serial>>
    /\ UNCHANGED notTrackerVars

\* deque(maxlen=5000)
CONDITIONS_MAXLEN == 5000

\* the condition of the scenario: L3_crypto_earthquake_quantum_rng
ScenarioCondition == [level |-> 3, sources |-> <<1, 2, 3>>]

NoFiring == [at |-> -1, recorded |-> 0, changed |-> FALSE]

\* the times at which the clock is read in the scenario: at the second
\* condition's timestamp, after all conditions, and one second after each
ScenarioTimes ==
    { ScenarioStep, ScenarioStep + 1,
      ScenarioStep * ScenarioConditions, ScenarioStep * ScenarioConditions + 1 }

\* the next condition of the scenario, with timestamp 0, 100, 200, ...
ScenarioRecord ==
    /\ cond_serial < ScenarioConditions
    /\ record_condition(ScenarioCondition, ScenarioStep * cond_serial, CONDITIONS_MAXLEN)
    /\ UNCHANGED <<now, tracker_ticks, credit, replayed, scenario_log, tracker_disk>>
    /\ UNCHANGED notTrackerVars

ScenarioClock(t) ==
    /\ t > now
    /\ now' = t
    /\ UNCHANGED <<recent_conditions, patterns, tracker_ticks, cond_serial, credit, replayed,
                   scenario_log, tracker_disk>>
    /\ UNCHANGED notTrackerVars

\* a crypto reading for which the check of btc_pump_1h returns true
ScenarioFire ==
    /\ CheckEvents({"btc_pump_1h"}, FALSE)
    /\ UNCHANGED tracker_disk
    /\ scenario_log' = << scenario_log[2],
                          [at |-> now, recorded |-> cond_serial,
                           changed |-> patterns' # patterns] >>

\* json null, kept apart from every number
JSON_NULL == -2

\* json.dump of asdict(pattern): inf is written as null, a (lat, lon) tuple as a list
pattern_to_json(p) ==
    [p EXCEPT !.min_time_to_event = IF p.min_time_to_event = Inf THEN JSON_NULL
                                    ELSE p.min_time_to_event,
              !.event_locations = [i \in DOMAIN p.event_locations |->
                                      <<"list", p.event_locations[i]>>]]

\* Pattern(**pattern_dict) after null has been replaced by inf
pattern_from_json(d) ==
    [d EXCEPT !.min_time_to_event = IF d.min_time_to_event = JSON_NULL THEN Inf
                                    ELSE d.min_time_to_event]

\* _save_patterns: the contents of patterns.json and recent_conditions.json
_save_patterns ==
    [ patterns |-> [k \in DOMAIN patterns |-> pattern_to_json(patterns[k])],
      conditions |-> [i \in DOMAIN recent_conditions |->
                         [timestamp |-> recent_conditions[i].condition.timestamp,
                          level |-> recent_conditions[i].condition.level,
                          sources |-> recent_conditions[i].condition.sources,
                          matched_events |-> recent_conditions[i].matched_events,
                          id |-> recent_conditions[i].id]] ]

\* mutant: the matched events of a stored condition are not read back
LoadCondition_unmatched(item) ==
    [condition |-> [level |-> item.level, sources |-> item.sources,
                    timestamp |-> item.timestamp],
     timestamp |-> item.timestamp, matched_events |-> <<>>, id |-> item.id]

\* the deque entry _load_patterns builds from one stored condition
LoadCondition(item) ==
    [condition |-> [level |-> item.level, sources |-> item.sources,
                    timestamp |-> item.timestamp],
     timestamp |-> item.timestamp, matched_events |-> item.matched_events, id |-> item.id]

\* _load_patterns on an empty tracker: the pattern table and the deque
_load_patterns(files, current_time) ==
    [ patterns |-> [k \in DOMAIN files.patterns |-> pattern_from_json(files.patterns[k])],
      recent_conditions |->
          LET kept == SelectSeq(files.conditions,
                                LAMBDA item : current_time - item.timestamp
                                                  < LOOKBACK_WINDOW_HOURS * 3600)
          IN DequeFromList([i \in DOMAIN kept |-> LoadCondition(kept[i])],
                           RecentConditionsMaxLen) ]

\* HistoricalPatternTracker.save
Save ==
    /\ tracker_disk' = [tracker_disk EXCEPT
                            !.files = Some(_save_patterns),
                            !.saved = Some([patterns |-> patterns,
                                            recent_conditions |-> recent_conditions,
                                            credit |-> credit]),
                            !.op = "save"]
    /\ UNCHANGED <<now, recent_conditions, patterns, tracker_ticks, cond_serial, credit,
                   replayed, scenario_log>>
    /\ UNCHANGED notTrackerVars

\* the process ends and HistoricalPatternTracker(storage_path) is constructed again
Restart ==
    /\ tracker_disk.restarts < MaxRestarts
    /\ IF tracker_disk.files = NoneOpt
       THEN /\ patterns' = <<>>
            /\ recent_conditions' = <<>>
            /\ credit' = [k \in DOMAIN credit |-> 0]
       ELSE /\ patterns' = _load_patterns(Get(tracker_disk.files), now).patterns
            /\ recent_conditions' =
                   _load_patterns(Get(tracker_disk.files), now).recent_conditions
            /\ credit' = Get(tracker_disk.saved).credit
    /\ replayed' = FALSE
    /\ tracker_disk' = [tracker_disk EXCEPT !.restarts = @ + 1, !.op = "load"]
    /\ UNCHANGED <<now, tracker_ticks, cond_serial, scenario_log>>
    /\ UNCHANGED notTrackerVars

\* the process ends inside _save_patterns, after patterns.json was written and
\* closed and before recent_conditions.json is opened, and the tracker is
\* constructed again: patterns.json is of this save, recent_conditions.json of
\* the save before it (no such file: no condition is loaded)
CrashInSave ==
    /\ tracker_disk.restarts < MaxRestarts
    /\ LET files == [patterns |-> _save_patterns.patterns,
                     conditions |-> IF tracker_disk.files = NoneOpt THEN <<>>
                                    ELSE Get(tracker_disk.files).conditions]
       IN /\ patterns' = _load_patterns(files, now).patterns
          /\ recent_conditions' = _load_patterns(files, now).recent_conditions
          /\ tracker_disk' = [tracker_disk EXCEPT !.files = Some(files),
                                                  !.restarts = @ + 1, !.op = "crash"]
    /\ replayed' = FALSE
    /\ UNCHANGED <<now, tracker_ticks, cond_serial, credit, scenario_log>>
    /\ UNCHANGED notTrackerVars

\* the wall clock advances between two calls of the tracker
TrackerTick(d) ==
    /\ tracker_ticks < MaxTrackerTicks
    /\ now' = now + d
    /\ tracker_ticks' = tracker_ticks + 1
    /\ UNCHANGED <<recent_conditions, patterns, cond_serial, credit, replayed>>
    /\ UNCHANGED notTrackerVars

(***************************************************************************)
(* Scheduler                                                               *)
(* The display-only statistics of TaskStats (last_run, next_run,           *)
(* avg_duration_ms, last_drift_ms) are left out of the task record.        *)
(***************************************************************************)
TaskNames == {"a", "b"}
\* arguments of the register_task calls explored: name, interval in whole
\* seconds, priority
RegisterInputs ==
    { [name |-> "a", interval |-> 1, priority |-> "low"],
      [name |-> "b", interval |-> 5000, priority |-> "high"] }
\* the wait of semaphore.acquire(timeout=1.0), seconds
ACQUIRE_TIMEOUT == 1
\* upper clamp of the interval, seconds
MAX_INTERVAL == 3600

\* interval = max(0.1, min(3600.0, interval)); the inputs are whole seconds,
\* which the lower clamp 0.1 leaves alone
ClampInterval(interval) == Min(MAX_INTERVAL, interval)

TaskIndex(name) ==
    IF \E i \in DOMAIN tasks : tasks[i].name = name
    THEN CHOOSE i \in DOMAIN tasks : tasks[i].name = name
    ELSE 0

\* self._tasks[name] = task: an existing key keeps its place in the dict
DictPut(d, name, obj) ==
    IF \E i \in DOMAIN d : d[i].name = name
    THEN [i \in DOMAIN d |-> IF d[i].name = name THEN [name |-> name, obj |-> obj] ELSE d[i]]
    ELSE Append(d, [name |-> name, obj |-> obj])

\* del self._tasks[name]
DictDel(d, name) == SelectSeq(d, LAMBDA e : e.name # name)

\* a _run_task thread that is not running, with the way its last run ended
WorkerDone(outcome) == [pc |-> "none", since |-> 0, outcome |-> outcome]

IdleWorker == WorkerDone("-")

\* a ScheduledTask object that nothing refers to any more
DeadTask ==
    [ name |-> "-", interval |-> 0, priority |-> "low", state |-> "stopped",
      running |-> FALSE, next_run |-> 0,
      stats |-> [run_count |-> 0, error_count |-> 0, consecutive_failures |-> 0] ]

\* garbage collection: an object that is neither in the task table, nor in the
\* ready list of the current pass, nor owned by a worker thread is unreachable
Collect(objs, tks, rdy, wrk) ==
    [o \in DOMAIN objs |->
        IF \/ \E i \in DOMAIN tks : tks[i].obj = o
           \/ \E i \in DOMAIN rdy : rdy[i] = o
           \/ wrk[o].pc # "none"
        THEN objs[o] ELSE DeadTask]

\* Scheduler.register_task
Register(name, interval, priority) ==
    /\ Len(task_objs) < MaxTaskObjs
    /\ LET o == Len(task_objs) + 1
           task == [ name |-> name, interval |-> ClampInterval(interval),
                     priority |-> priority, state |-> "pending", running |-> FALSE,
                     next_run |-> now,
                     stats |-> [ run_count |-> 0, error_count |-> 0,
                                 consecutive_failures |-> 0 ] ]
       IN /\ tasks' = DictPut(tasks, name, o)
          /\ worker' = Append(worker, IdleWorker)
          /\ task_objs' = Collect(Append(task_objs, task), tasks', ready_tasks, worker')
    /\ UNCHANGED <<now, sched_running, stop_event, semaphore, loop_pc, ready_tasks, sched_ticks>>
    /\ pause_pending' = pause_pending \ {name}
    /\ UNCHANGED control_calls
    /\ UNCHANGED notSchedVars

\* Scheduler.unregister_task
Unregister(name) ==
    /\ control_calls < MaxControlCalls
    /\ tasks' = DictDel(tasks, name)
    /\ task_objs' = Collect(task_objs, tasks', ready_tasks, worker)
    /\ UNCHANGED <<now, sched_running, stop_event, semaphore, loop_pc,
                   ready_tasks, worker, sched_ticks>>
    /\ control_calls' = control_calls + 1
    /\ pause_pending' = pause_pending \ {name}
    /\ UNCHANGED notSchedVars

\* Scheduler.pause_task
Pause(name) ==
    /\ control_calls < MaxControlCalls
    /\ TaskIndex(name) # 0
    /\ task_objs' = [task_objs EXCEPT ![tasks[TaskIndex(name)].obj].state = "paused"]
    /\ UNCHANGED <<now, tasks, sched_running, stop_event, semaphore, loop_pc,
                   ready_tasks, worker, sched_ticks>>
    /\ control_calls' = control_calls + 1
    /\ pause_pending' = pause_pending \cup {name}
    /\ UNCHANGED notSchedVars

\* Scheduler.resume_task on a registered name; it returns False and changes
\* nothing when the task is not paused
Resume(name) ==
    /\ control_calls < MaxControlCalls
    /\ TaskIndex(name) # 0
    /\ LET o == tasks[TaskIndex(name)].obj
       IN task_objs' = IF task_objs[o].state = "paused"
                       THEN [task_objs EXCEPT ![o].state = "pending", ![o].next_run = now]
                       ELSE task_objs
    /\ control_calls' = control_calls + 1
    /\ pause_pending' = pause_pending \ {name}
    /\ UNCHANGED <<now, tasks, sched_running, stop_event, semaphore, loop_pc,
                   ready_tasks, worker, sched_ticks>>
    /\ UNCHANGED notSchedVars

\* Scheduler.start; a new loop thread is created once the previous one has ended
Start ==
    /\ ~sched_running
    /\ loop_pc \in {"none", "exited"}
    /\ sched_running' = TRUE
    /\ stop_event' = FALSE
    /\ loop_pc' = "run"
    /\ UNCHANGED <<now, task_objs, tasks, semaphore, ready_tasks, worker, sched_ticks, pause_pending, control_calls>>
    /\ UNCHANGED notSchedVars

\* Scheduler.stop
Stop ==
    /\ control_calls < MaxControlCalls
    /\ control_calls' = control_calls + 1
    /\ sched_running
    /\ sched_running' = FALSE
    /\ stop_event' = TRUE
    /\ UNCHANGED <<now, task_objs, tasks, semaphore, loop_pc, ready_tasks, worker, sched_ticks, pause_pending>>
    /\ UNCHANGED notSchedVars

\* the test of _get_ready_tasks on one task
IsReady(t, at) == t.state # "paused" /\ ~t.running /\ t.next_run <= at

\* _get_ready_tasks without the sort by priority
GetReadyTasks_unsorted(at) ==
    SelectSeq([i \in DOMAIN tasks |-> tasks[i].obj], LAMBDA o : IsReady(task_objs[o], at))

\* Scheduler._get_ready_tasks: the ready tasks in dict order, then a stable
\* sort by priority (high, medium, low)
GetReadyTasks(at) ==
    LET objs == [i \in DOMAIN tasks |-> tasks[i].obj]
        rdy  == SelectSeq(objs, LAMBDA o : IsReady(task_objs[o], at))
        of(p) == SelectSeq(rdy, LAMBDA o : task_objs[o].priority = p)
    IN of("high") \o of("medium") \o of("low")

\* number of runs of a task object that have ended
Finished(t) == t.stats.run_count + t.stats.error_count

\* Scheduler._run_loop: the pass is over (stop_event.wait(0.1)); the loop test
\* and the computation of the next ready list
LoopTop ==
    /\ loop_pc = "run"
    /\ ready_tasks = <<>>
    /\ IF sched_running /\ ~stop_event
       THEN /\ ready_tasks' = GetReadyTasks(now)
            /\ loop_pc' = "run"
       ELSE /\ ready_tasks' = <<>>
            /\ loop_pc' = "exited"
    /\ UNCHANGED <<now, task_objs, tasks, sched_running, stop_event, semaphore, worker, sched_ticks, pause_pending, control_calls>>
    /\ UNCHANGED notSchedVars

\* Scheduler._execute_task: "if task._running: return"
MayDispatch(t) == ~t.running

\* Scheduler._run_loop: one turn of "for task in ready_tasks", with
\* _execute_task and the first statements of the _run_task thread
\* (start_time); a stopped scheduler breaks out of the pass
LoopExecute ==
    /\ loop_pc = "run"
    /\ ready_tasks # <<>>
    /\ Finished(task_objs[Head(ready_tasks)]) < MaxRuns
    /\ IF ~sched_running
       THEN /\ ready_tasks' = <<>>
            /\ worker' = worker
            /\ task_objs' = Collect(task_objs, tasks, ready_tasks', worker')
       ELSE LET o == Head(ready_tasks)
            IN /\ ready_tasks' = Tail(ready_tasks)
               /\ IF MayDispatch(task_objs[o])
                  THEN /\ worker' = [worker EXCEPT ![o] = [pc |-> "acquire", since |-> now, outcome |-> "-"]]
                       /\ task_objs' = Collect([task_objs EXCEPT ![o].running = TRUE,
                                                                 ![o].state = "running"],
                                               tasks, ready_tasks', worker')
                  ELSE /\ worker' = worker
                       /\ task_objs' = Collect(task_objs, tasks, ready_tasks', worker')
    /\ UNCHANGED <<now, tasks, sched_running, stop_event, semaphore, loop_pc, sched_ticks, pause_pending, control_calls>>
    /\ UNCHANGED notSchedVars

\* _run_task entering the callback without waiting for a free slot
WorkerEnterCallback_no_slot(o) ==
    /\ worker[o].pc = "acquire"
    /\ semaphore' = semaphore - 1
    /\ worker' = [worker EXCEPT ![o].pc = "callback"]
    /\ UNCHANGED <<now, task_objs, tasks, sched_running, stop_event, loop_pc,
                   ready_tasks, sched_ticks, pause_pending, control_calls>>
    /\ UNCHANGED notSchedVars

\* Scheduler._run_task: the semaphore is acquired and the callback entered
WorkerEnterCallback(o) ==
    /\ worker[o].pc = "acquire"
    /\ semaphore > 0
    /\ semaphore' = semaphore - 1
    /\ worker' = [worker EXCEPT ![o].pc = "callback"]
    /\ UNCHANGED <<now, task_objs, tasks, sched_running, stop_event, loop_pc,
                   ready_tasks, sched_ticks, pause_pending, control_calls>>
    /\ UNCHANGED notSchedVars

\* the "finally" of _run_task
Reschedule(t) ==
    [t EXCEPT !.running = FALSE, !.state = "pending", !.next_run = now + t.interval]

\* Scheduler._run_task: acquire(timeout=1.0) gives up; the callback is not run
WorkerAcquireTimeout(o) ==
    /\ worker[o].pc = "acquire"
    /\ semaphore = 0
    /\ now >= worker[o].since + ACQUIRE_TIMEOUT
    /\ worker' = [worker EXCEPT ![o] = WorkerDone("timeout")]
    /\ task_objs' = Collect([task_objs EXCEPT ![o] = Reschedule(@)],
                            tasks, ready_tasks, worker')
    /\ UNCHANGED <<now, tasks, sched_running, stop_event, semaphore, loop_pc,
                   ready_tasks, sched_ticks, pause_pending, control_calls>>
    /\ UNCHANGED notSchedVars

\* _run_task leaving consecutive_failures alone after a successful run
WorkerFinish_keep_failures(o, ok) ==
    /\ worker[o].pc = "callback"
    /\ semaphore' = semaphore + 1
    /\ worker' = [worker EXCEPT ![o] = WorkerDone(IF ok THEN "returned" ELSE "raised")]
    /\ LET t == task_objs[o]
           t1 == IF ok
                 THEN [t EXCEPT !.stats.run_count = @ + 1]
                 ELSE [t EXCEPT !.stats.error_count = @ + 1,
                                !.stats.consecutive_failures = @ + 1]
       IN task_objs' = Collect([task_objs EXCEPT ![o] = Reschedule(t1)],
                               tasks, ready_tasks, worker')
    /\ UNCHANGED <<now, tasks, sched_running, stop_event, loop_pc, ready_tasks, sched_ticks,
                   pause_pending, control_calls>>
    /\ UNCHANGED notSchedVars

\* Scheduler._run_task: the callback returns (ok) or raises, the statistics
\* are updated, the semaphore released and the next run scheduled
WorkerFinish(o, ok) ==
    /\ worker[o].pc = "callback"
    /\ semaphore' = semaphore + 1
    /\ worker' = [worker EXCEPT ![o] = WorkerDone(IF ok THEN "returned" ELSE "raised")]
    /\ LET t == task_objs[o]
           t1 == IF ok
                 THEN [t EXCEPT !.stats.run_count = @ + 1,
                                !.stats.consecutive_failures = 0]
                 ELSE [t EXCEPT !.stats.error_count = @ + 1,
                                !.stats.consecutive_failures = @ + 1]
       IN task_objs' = Collect([task_objs EXCEPT ![o] = Reschedule(t1)],
                               tasks, ready_tasks, worker')
    /\ UNCHANGED <<now, tasks, sched_running, stop_event, loop_pc, ready_tasks, sched_ticks, pause_pending, control_calls>>
    /\ UNCHANGED notSchedVars

\* the wall clock advances by one second
SchedTick ==
    /\ sched_ticks < MaxSchedTicks
    /\ now' = now + 1
    /\ sched_ticks' = sched_ticks + 1
    /\ UNCHANGED <<task_objs, tasks, sched_running, stop_event, semaphore, loop_pc,
                   ready_tasks, worker, pause_pending, control_calls>>
    /\ UNCHANGED notSchedVars

SchedInit ==
    /\ task_objs = <<>>
    /\ tasks = <<>>
    /\ sched_running = FALSE
    /\ stop_event = FALSE
    /\ semaphore = MaxConcurrent
    /\ loop_pc = "none"
    /\ ready_tasks = <<>>
    /\ worker = <<>>
    /\ sched_ticks = 0
    /\ pause_pending = {}
    /\ control_calls = 0

SchedNext ==
    \/ \E r \in RegisterInputs : Register(r.name, r.interval, r.priority)
    \/ \E n \in TaskNames : Unregister(n)
    \/ \E n \in TaskNames : Pause(n)
    \/ \E n \in TaskNames : Resume(n)
    \/ Start
    \/ Stop
    \/ LoopTop
    \/ LoopExecute
    \/ \E o \in DOMAIN task_objs : WorkerEnterCallback(o)
    \/ \E o \in DOMAIN task_objs : WorkerAcquireTimeout(o)
    \/ \E o \in DOMAIN task_objs, ok \in BOOLEAN : WorkerFinish(o, ok)
    \/ SchedTick

\* register_task calls explored for the order of dispatch: three names, two
\* of them able to share a priority, all three priorities
PriorityInputs ==
    { [name |-> "a", interval |-> 1, priority |-> "low"],
      [name |-> "b", interval |-> 1, priority |-> "low"],
      [name |-> "b", interval |-> 1, priority |-> "high"],
      [name |-> "c", interval |-> 1, priority |-> "medium"] }

SchedOrderNext ==
    \/ \E r \in PriorityInputs : Register(r.name, r.interval, r.priority)
    \/ \E r \in PriorityInputs : Unregister(r.name)
    \/ \E r \in PriorityInputs : Pause(r.name)
    \/ Start
    \/ LoopTop
    \/ LoopExecute
    \/ \E o \in DOMAIN task_objs : WorkerEnterCallback(o)
    \/ \E o \in DOMAIN task_objs : WorkerFinish(o, TRUE)

(***************************************************************************)
(* EventBus                                                                *)
(* Calls are taken one at a time; a callback either returns or raises.     *)
(* An optional argument is the empty set (None) or a singleton.            *)
(***************************************************************************)
\* events handed to publish; n is set to the serial of the publish call
PublishInputs ==
    { [event_type |-> "data", source |-> "s1", severity |-> "info"],
      [event_type |-> "anomaly", source |-> "s2", severity |-> "critical"] }

\* arguments handed to subscribe
SubscribeInputs ==
    { [event_types |-> NoneOpt, sources |-> NoneOpt, min_severity |-> NoneOpt],
      [event_types |-> Some(<<"anomaly">>), sources |-> NoneOpt, min_severity |-> NoneOpt],
      [event_types |-> Some(<<>>), sources |-> Some(<<"s1">>), min_severity |-> Some("warning")] }

severity_order(s) ==
    CASE s = "info" -> 0
      [] s = "warning" -> 1
      [] s = "critical" -> 2
      [] OTHER -> 0

\* EventFilter.matches
matches(f, event) ==
    /\ (f.event_types # NoneOpt => InSeq(event.event_type, Get(f.event_types)))
    /\ (f.sources # NoneOpt => InSeq(event.source, Get(f.sources)))
    /\ (f.min_severity # NoneOpt =>
            severity_order(event.severity) >= severity_order(Get(f.min_severity)))

\* truth value of an optional list argument
TruthyList(o) == o # NoneOpt /\ Get(o) # <<>>

\* a loop that skips no subscriber
Accepts_all(sub, event) == TRUE

\* "sub.filter and not sub.filter.matches(event)" is false
Accepts(sub, event) == sub.filter = NoneOpt \/ matches(Get(sub.filter), event)

SubIndex(id) ==
    IF \E i \in DOMAIN subscriptions : subscriptions[i].id = id
    THEN CHOOSE i \in DOMAIN subscriptions : subscriptions[i].id = id
    ELSE 0

Subscribe(event_types, sources, min_severity) ==
    /\ subscribe_calls < MaxSubscribes
    /\ LET sub_id == subscribe_calls + 1
           event_filter ==
               IF TruthyList(event_types) \/ TruthyList(sources) \/ min_severity # NoneOpt
               THEN Some([event_types |-> event_types, sources |-> sources,
                          min_severity |-> min_severity])
               ELSE NoneOpt
           subscription == [id |-> sub_id, filter |-> event_filter, buffer |-> <<>>,
                            max_buffer_size |-> MaxBufferSize, dropped_count |-> 0]
       IN /\ subscriptions' = Append(subscriptions, subscription)
          /\ subscribe_calls' = sub_id
          /\ bus_last' = [op |-> "subscribe", arg |-> sub_id, invoked |-> <<>>,
                          raised |-> {}, dropped |-> 0, ret |-> sub_id]
    /\ UNCHANGED <<total_published, total_delivered, total_dropped, removed_any>>
    /\ UNCHANGED <<now, notBusVars>>

Unsubscribe(subscription_id) ==
    /\ LET found == SubIndex(subscription_id) # 0
       IN /\ subscriptions' = SelectSeq(subscriptions, LAMBDA s : s.id # subscription_id)
          /\ removed_any' = (removed_any \/ found)
          /\ bus_last' = [op |-> "unsubscribe", arg |-> subscription_id, invoked |-> <<>>,
                          raised |-> {}, dropped |-> 0, ret |-> IF found THEN 1 ELSE 0]
    /\ UNCHANGED <<total_published, total_delivered, total_dropped, subscribe_calls>>
    /\ UNCHANGED <<now, notBusVars>>

\* the except branch of publish: buffer the event for retry
BufferEvent_drop_uncounted(sub, event) ==
    [sub |-> [sub EXCEPT !.buffer = DequeAppend(sub.buffer, event, sub.max_buffer_size)],
     dropped |-> 0]

BufferEvent(sub, event) ==
    IF Len(sub.buffer) >= sub.max_buffer_size
    THEN [sub |-> [sub EXCEPT !.buffer = Append(Tail(sub.buffer), event),
                              !.dropped_count = sub.dropped_count + 1],
          dropped |-> 1]
    ELSE [sub |-> [sub EXCEPT !.buffer = Append(sub.buffer, event)],
          dropped |-> 0]

\* one pass of the delivery loop of publish for the subscriber at position i
TryDeliver_count_first(acc, i, event, ok) ==
    LET sub == acc.subs[i]
        b == BufferEvent(sub, event)
    IN IF ~Accepts(sub, event) THEN acc
       ELSE IF ok
       THEN [acc EXCEPT !.invoked = Append(acc.invoked, sub.id),
                        !.delivered = acc.delivered + 1,
                        !.total_delivered = acc.total_delivered + 1]
       ELSE [acc EXCEPT !.invoked = Append(acc.invoked, sub.id),
                        !.total_delivered = acc.total_delivered + 1,
                        !.subs[i] = b.sub,
                        !.total_dropped = acc.total_dropped + b.dropped]

TryDeliver_swallow(acc, i, event, ok) ==
    LET sub == acc.subs[i]
    IN IF ~Accepts(sub, event) THEN acc
       ELSE IF ok
       THEN [acc EXCEPT !.invoked = Append(acc.invoked, sub.id),
                        !.delivered = acc.delivered + 1,
                        !.total_delivered = acc.total_delivered + 1]
       ELSE [acc EXCEPT !.invoked = Append(acc.invoked, sub.id)]

TryDeliver(acc, i, event, ok) ==
    LET sub == acc.subs[i]
        b == BufferEvent(sub, event)
    IN IF ~Accepts(sub, event) THEN acc
       ELSE IF ok
       THEN [acc EXCEPT !.invoked = Append(acc.invoked, sub.id),
                        !.delivered = acc.delivered + 1,
                        !.total_delivered = acc.total_delivered + 1]
       ELSE [acc EXCEPT !.invoked = Append(acc.invoked, sub.id),
                        !.subs[i] = b.sub,
                        !.total_dropped = acc.total_dropped + b.dropped]

RECURSIVE DeliverFrom(_, _, _, _)
DeliverFrom(acc, i, event, raising) ==
    IF i > Len(acc.subs) THEN acc
    ELSE DeliverFrom(TryDeliver(acc, i, event, acc.subs[i].id \notin raising),
                     i + 1, event, raising)

\* publish(event); raising is the set of subscribers whose callback raises on it
Publish(e, raising) ==
    /\ total_published < MaxPublished
    /\ LET event == [event_type |-> e.event_type, source |-> e.source,
                     severity |-> e.severity, n |-> total_published + 1]
           acc == DeliverFrom([subs |-> subscriptions, delivered |-> 0,
                               total_delivered |-> total_delivered,
                               total_dropped |-> total_dropped, invoked |-> <<>>],
                              1, event, raising)
       IN /\ total_published' = total_published + 1
          /\ subscriptions' = acc.subs
          /\ total_delivered' = acc.total_delivered
          /\ total_dropped' = acc.total_dropped
          /\ bus_last' = [op |-> "publish", arg |-> event, invoked |-> acc.invoked,
                          raised |-> {acc.invoked[k] : k \in DOMAIN acc.invoked} \cap raising,
                          dropped |-> acc.total_dropped - total_dropped,
                          ret |-> acc.delivered]
    /\ UNCHANGED <<subscribe_calls, removed_any>>
    /\ UNCHANGED <<now, notBusVars>>

\* flush_buffer taking the event off the backlog before its callback is called
FlushBuffer_pop_before_call(subscription_id, k) ==
    LET i == SubIndex(subscription_id)
    IN /\ IF i = 0
          THEN /\ k = 0
               /\ bus_last' = [op |-> "flush", arg |-> subscription_id, invoked |-> <<>>,
                               raised |-> {}, dropped |-> 0, ret |-> 0]
               /\ UNCHANGED subscriptions
          ELSE LET buffer == subscriptions[i].buffer
                   tried == Min(k + 1, Len(buffer))
               IN /\ k <= Len(buffer)
                  /\ subscriptions' =
                         [subscriptions EXCEPT ![i].buffer = SubSeq(buffer, tried + 1, Len(buffer))]
                  /\ bus_last' = [op |-> "flush", arg |-> subscription_id,
                                  invoked |-> [j \in 1..tried |-> buffer[j].n],
                                  raised |-> IF k < Len(buffer) THEN {buffer[k + 1].n} ELSE {},
                                  dropped |-> 0,
                                  ret |-> k]
       /\ UNCHANGED <<total_published, total_delivered, total_dropped, subscribe_calls,
                      removed_any>>
       /\ UNCHANGED <<now, notBusVars>>

\* flush_buffer(id); the callback returns for the first k buffered events and
\* raises on the next one, if there is one
FlushBuffer(subscription_id, k) ==
    LET i == SubIndex(subscription_id)
    IN /\ IF i = 0
          THEN /\ k = 0
               /\ bus_last' = [op |-> "flush", arg |-> subscription_id, invoked |-> <<>>,
                               raised |-> {}, dropped |-> 0, ret |-> 0]
               /\ UNCHANGED subscriptions
          ELSE LET buffer == subscriptions[i].buffer
                   tried == Min(k + 1, Len(buffer))
               IN /\ k <= Len(buffer)
                  /\ subscriptions' =
                         [subscriptions EXCEPT ![i].buffer = SubSeq(buffer, k + 1, Len(buffer))]
                  /\ bus_last' = [op |-> "flush", arg |-> subscription_id,
                                  invoked |-> [j \in 1..tried |-> buffer[j].n],
                                  raised |-> IF k < Len(buffer) THEN {buffer[k + 1].n} ELSE {},
                                  dropped |-> 0,
                                  ret |-> k]
       /\ UNCHANGED <<total_published, total_delivered, total_dropped, subscribe_calls,
                      removed_any>>
       /\ UNCHANGED <<now, notBusVars>>

get_stats ==
    [subscriber_count |-> Len(subscriptions),
     total_published |-> total_published,
     total_delivered |-> total_delivered,
     total_dropped |-> total_dropped]

BusInit ==
    /\ subscriptions = <<>>
    /\ total_published = 0
    /\ total_delivered = 0
    /\ total_dropped = 0
    /\ subscribe_calls = 0
    /\ removed_any = FALSE
    /\ bus_last = [op |-> "init", arg |-> 0, invoked |-> <<>>, raised |-> {}, dropped |-> 0, ret |-> 0]

BusNext ==
    \/ \E a \in SubscribeInputs : Subscribe(a.event_types, a.sources, a.min_severity)
    \/ \E id \in 1..MaxSubscribes : Unsubscribe(id)
    \/ \E e \in PublishInputs, raising \in SUBSET (1..subscribe_calls) : Publish(e, raising)
    \/ \E id \in 1..MaxSubscribes, k \in 0..MaxBufferSize : FlushBuffer(id, k)

(***************************************************************************)
(* ClusterDetector                                                         *)
(* Sensor sources are numbered in the order of their first anomaly.        *)
(* Probabilities are in thousandths.                                       *)
(***************************************************************************)
CLUSTER_WINDOW == 30
PRECURSOR_WINDOW == 3600
RECENT_ANOMALIES_MAXLEN == 1000
PRECURSOR_CANDIDATES_MAXLEN == 100

\* how far anomaly.timestamp lies behind the clock when add_anomaly is called
AnomalyLags == {0, 40}
ClusterTickSteps == {20}

SourcesOf(entries) == {entries[i].anomaly.sensor_source : i \in DOMAIN entries}

AnomaliesOf(entries) == [i \in DOMAIN entries |-> entries[i].anomaly]

NoCluster == [level |-> 0, anomalies |-> <<>>, timestamp |-> 0, probability |-> 0]

\* mutant: the number of anomalies stands for the number of sources
_calculate_cluster_probability_by_length(anomalies) ==
    LET n == Len(anomalies)
    IN CASE n = 2 -> 100
         [] n = 3 -> 50
         [] n = 4 -> 10
         [] OTHER -> 1

_calculate_cluster_probability(anomalies) ==
    LET n == Cardinality({anomalies[i].sensor_source : i \in DOMAIN anomalies})
    IN CASE n = 2 -> 100
         [] n = 3 -> 50
         [] n = 4 -> 10
         [] OTHER -> 1

\* the entries the window test of _detect_cluster keeps
InWindow(entries, current_time) ==
    SelectSeq(entries, LAMBDA a : current_time - a.timestamp < CLUSTER_WINDOW)

LevelOf_by_count(recent) == Len(recent)

\* "level = len(sources)"
LevelOf(recent) == Cardinality(SourcesOf(recent))

_detect_cluster(entries, new_anomaly, current_time) ==
    LET recent == InWindow(entries, current_time)
        level == LevelOf(recent)
        anomaly_list == AnomaliesOf(recent)
    IN IF Len(recent) < 1 THEN NoCluster
       ELSE IF level = 1
       THEN [level |-> 1, anomalies |-> <<new_anomaly>>,
             timestamp |-> new_anomaly.timestamp, probability |-> 1000]
       ELSE [level |-> IF level >= 5 THEN 5 ELSE level, anomalies |-> anomaly_list,
             timestamp |-> new_anomaly.timestamp,
             probability |-> _calculate_cluster_probability(anomaly_list)]

\* the entries add_anomaly keeps when it cleans old anomalies
Purge(entries, current_time) ==
    DequeFromList(SelectSeq(entries, LAMBDA a : a.timestamp > current_time - CLUSTER_WINDOW * 2),
                  RECENT_ANOMALIES_MAXLEN)

\* _check_precursor: stores the candidate and returns None
_check_precursor(candidates, anomaly, current_time) ==
    DequeFromList(
        SelectSeq(DequeAppend(candidates, [anomaly |-> anomaly, timestamp |-> anomaly.timestamp],
                              PRECURSOR_CANDIDATES_MAXLEN),
                  LAMBDA c : c.timestamp > current_time - PRECURSOR_WINDOW),
        PRECURSOR_CANDIDATES_MAXLEN)

\* ClusterDetector.add_anomaly: the new deques and the cluster returned
add_anomaly(anomaly) ==
    LET stored == DequeAppend(recent_anomalies,
                              [anomaly |-> anomaly, timestamp |-> anomaly.timestamp],
                              RECENT_ANOMALIES_MAXLEN)
        kept == Purge(stored, now)
        cluster == _detect_cluster(kept, anomaly, now)
    IN [ recent_anomalies |-> kept,
         precursor_candidates |->
             IF cluster.level < 3
             THEN _check_precursor(precursor_candidates, anomaly, now)
             ELSE precursor_candidates,
         cluster |-> cluster ]

AddAnomaly(source, lag) ==
    /\ added < MaxAdded
    /\ source <= sources_seen + 1
    /\ LET anomaly == [sensor_source |-> source, timestamp |-> now - lag]
           res == add_anomaly(anomaly)
       IN /\ recent_anomalies' = res.recent_anomalies
          /\ precursor_candidates' = res.precursor_candidates
          /\ cluster_last' = [anomaly |-> anomaly, at |-> now, cluster |-> res.cluster]
    /\ sources_seen' = Max(sources_seen, source)
    /\ added' = added + 1
    /\ UNCHANGED <<now, cluster_ticks>>
    /\ UNCHANGED notClusterVars

ClusterTick(d) ==
    /\ cluster_ticks < MaxClusterTicks
    /\ now' = now + d
    /\ cluster_ticks' = cluster_ticks + 1
    /\ UNCHANGED <<recent_anomalies, precursor_candidates, sources_seen, added, cluster_last>>
    /\ UNCHANGED notClusterVars

ClusterInit ==
    /\ recent_anomalies = <<>>
    /\ precursor_candidates = <<>>
    /\ sources_seen = 0
    /\ added = 0
    /\ cluster_ticks = 0
    /\ cluster_last = [anomaly |-> [sensor_source |-> 0, timestamp |-> 0], at |-> 0,
                       cluster |-> NoCluster]

ClusterNext ==
    \/ \E source \in 1..MaxAdded, lag \in AnomalyLags : AddAnomaly(source, lag)
    \/ \E d \in ClusterTickSteps : ClusterTick(d)

(***************************************************************************)
(* AnomalyIndexCalculator                                                  *)
(* Floats are exact fractions: the index is kept in sevenths (total score  *)
(* over the seven weights), the baseline as <<numerator, denominator>>.    *)
(* A snapshot holds round(index, 1) in tenths and round(ratio, 2) in       *)
(* hundredths; its breakdown and active_anomalies are left out.            *)
(***************************************************************************)
BASELINE_WINDOW == 24 * 3600
BASELINE_UPDATE_INTERVAL == 3600
BASELINE_MIN_SNAPSHOTS == 10
INDEX_HISTORY_MAXLEN == 10000
\* sum(SENSOR_WEIGHTS.values()): seven sensors of weight 1.0
WEIGHT_SUM == 7
DEFAULT_BASELINE == <<15, 1>>

\* anomaly lists handed to calculate
AnomalyLists ==
    { <<>>,
      << [sensor_source |-> "crypto", severity |-> Some("medium"), z_score |-> 0],
         [sensor_source |-> "crypto", severity |-> NoneOpt, z_score |-> 4],
         [sensor_source |-> "earthquake", severity |-> NoneOpt, z_score |-> 2] >>,
      << [sensor_source |-> "news", severity |-> Some("critical"), z_score |-> 0] >>,
      << [sensor_source |-> "news", severity |-> Some("critical"), z_score |-> 0],
         [sensor_source |-> "crypto", severity |-> NoneOpt, z_score |-> -6] >>,
      [i \in 1..8 |-> [sensor_source |-> i, severity |-> Some("critical"), z_score |-> 0]] }

\* how many consecutive calls with the same list one Calculate step stands for
CallRuns == {1, 10}
IndexTickSteps == {3601, 24 * 3600}

\* round(a / b, ndigits) on the scaled numerator a; a value halfway between two
\* neighbours goes up or down as the float nearest to it falls
RoundDiv(a, b, tie_up) ==
    LET q == a \div b
        r == a % b
    IN IF 2 * r > b THEN q + 1
       ELSE IF 2 * r < b THEN q
       ELSE IF tie_up THEN q + 1 ELSE q

SeverityOfAnomaly(anomaly) ==
    IF anomaly.severity # NoneOpt THEN Get(anomaly.severity)
    ELSE IF Abs(anomaly.z_score) > 5 THEN "high"
    ELSE IF Abs(anomaly.z_score) > 3 THEN "medium"
    ELSE "low"

severity_map(severity) ==
    CASE severity = "low" -> 10
      [] severity = "medium" -> 30
      [] severity = "high" -> 50
      [] severity = "critical" -> 100
      [] OTHER -> 30

RECURSIVE SensorScore(_, _, _)
\* the uncapped score of one sensor: the severity scores of its anomalies
SensorScore(anomalies, sensor, i) ==
    IF i > Len(anomalies) THEN 0
    ELSE (IF anomalies[i].sensor_source = sensor
          THEN severity_map(SeverityOfAnomaly(anomalies[i])) ELSE 0)
         + SensorScore(anomalies, sensor, i + 1)

\* _calculate_breakdown: sensor -> min(100, score)
_calculate_breakdown(anomalies) ==
    [sensor \in {anomalies[i].sensor_source : i \in DOMAIN anomalies} |->
        Min(100, SensorScore(anomalies, sensor, 1))]

RECURSIVE SumOver(_, _)
SumOver(f, keys) ==
    IF keys = {} THEN 0
    ELSE f[CHOOSE x \in keys : TRUE] + SumOver(f, keys \ {CHOOSE x \in keys : TRUE})

RECURSIVE SumRange(_, _, _)
\* the sum of s.index over snapshots[lo..hi], by halves
SumRange(snapshots, lo, hi) ==
    IF lo > hi THEN 0
    ELSE IF lo = hi THEN snapshots[lo].index
    ELSE SumRange(snapshots, lo, (lo + hi) \div 2)
         + SumRange(snapshots, (lo + hi) \div 2 + 1, hi)

SumIndex(snapshots, i) == SumRange(snapshots, i, Len(snapshots))

\* _update_baseline without the 24-hour cutoff
_update_baseline_all(history, current_time) ==
    IF Len(history) < BASELINE_MIN_SNAPSHOTS THEN DEFAULT_BASELINE
    ELSE <<SumIndex(history, 1), 10 * Len(history)>>

\* _update_baseline: the new cache
_update_baseline(history, current_time) ==
    LET recent == SelectSeq(history, LAMBDA h : h.timestamp > current_time - BASELINE_WINDOW)
    IN IF Len(recent) < BASELINE_MIN_SNAPSHOTS THEN DEFAULT_BASELINE
       ELSE <<SumIndex(recent, 1), 10 * Len(recent)>>

\* _determine_status on the index in sevenths and the ratio as a fraction
_determine_status(index7, ratio) ==
    IF index7 >= 80 * WEIGHT_SUM \/ ratio[1] >= 3 * ratio[2] THEN "critical"
    ELSE IF index7 >= 60 * WEIGHT_SUM \/ ratio[1] >= 2 * ratio[2] THEN "high"
    ELSE IF index7 >= 40 * WEIGHT_SUM \/ 2 * ratio[1] >= 3 * ratio[2] THEN "elevated"
    ELSE "normal"

\* one call of calculate on the calculator state st at time current_time
calculate(st, active_anomalies, current_time, tie_up) ==
    LET update == current_time - st.last_baseline_update > BASELINE_UPDATE_INTERVAL
        baseline == IF update THEN _update_baseline(st.history, current_time)
                    ELSE st.baseline_cache
        breakdown == _calculate_breakdown(active_anomalies)
        total_score == SumOver(breakdown, DOMAIN breakdown)
        index7 == Min(100 * WEIGHT_SUM, total_score)
        baseline_ratio == IF baseline[1] > 0
                          THEN <<index7 * baseline[2], WEIGHT_SUM * baseline[1]>>
                          ELSE <<1, 1>>
        snapshot == [timestamp |-> current_time,
                     index |-> RoundDiv(10 * index7, WEIGHT_SUM, tie_up),
                     baseline_ratio |-> RoundDiv(100 * baseline_ratio[1], baseline_ratio[2],
                                                 tie_up),
                     status |-> _determine_status(index7, baseline_ratio)]
    IN [history |-> DequeAppend(st.history, snapshot, INDEX_HISTORY_MAXLEN),
        baseline_cache |-> baseline,
        last_baseline_update |-> IF update THEN current_time ELSE st.last_baseline_update]

RECURSIVE CalculateTimes(_, _, _, _, _)
\* n consecutive calls, the first half of them and then the rest on its result
CalculateTimes(st, active_anomalies, current_time, tie_up, n) ==
    IF n = 0 THEN st
    ELSE IF n = 1 THEN calculate(st, active_anomalies, current_time, tie_up)
    ELSE CHOOSE after \in
             { CalculateTimes(half, active_anomalies, current_time, tie_up, n - n \div 2) :
                 half \in {CalculateTimes(st, active_anomalies, current_time, tie_up,
                                          n \div 2)} } : TRUE

\* n consecutive calls of calculate with the same list
Calculate(active_anomalies, n, tie_up) ==
    /\ index_calls < MaxCalculated
    /\ LET st == CalculateTimes([history |-> index_history,
                                 baseline_cache |-> baseline_cache,
                                 last_baseline_update |-> last_baseline_update],
                                active_anomalies, now, tie_up, n)
       IN /\ index_history' = st.history
          /\ baseline_cache' = st.baseline_cache
          /\ last_baseline_update' = st.last_baseline_update
    /\ index_calls' = index_calls + 1
    /\ UNCHANGED <<now, index_ticks>>
    /\ UNCHANGED notIndexVars

IndexTick(d) ==
    /\ index_ticks < MaxIndexTicks
    /\ now' = now + d
    /\ index_ticks' = index_ticks + 1
    /\ UNCHANGED <<index_history, baseline_cache, last_baseline_update, index_calls>>
    /\ UNCHANGED notIndexVars

IndexInit ==
    /\ index_history = <<>>
    /\ baseline_cache = DEFAULT_BASELINE
    /\ last_baseline_update = 0
    /\ index_calls = 0
    /\ index_ticks = 0

IndexNext ==
    \/ \E l \in AnomalyLists, n \in CallRuns, tie_up \in BOOLEAN : Calculate(l, n, tie_up)
    \/ \E d \in IndexTickSteps : IndexTick(d)

(***************************************************************************)
(* StorageManager over JSONLStorage, for one sensor, without compression.  *)
(* A file name is the sequence of its character codes; a file's size is    *)
(* counted in records. A failing write attempt writes nothing.             *)
(***************************************************************************)
MAX_RETRIES == 3

\* records handed to write_record; id is set to the serial of the call
RecordInputs ==
    { [has_timestamp |-> TRUE, has_source |-> TRUE],
      [has_timestamp |-> FALSE, has_source |-> TRUE],
      [has_timestamp |-> TRUE, has_source |-> FALSE] }

\* "." "j" "s" "o" "n" "l"
DOT == 46
JSONL_SUFFIX == <<46, 106, 115, 111, 110, 108>>

RECURSIVE Digits(_)
\* str(n) for n >= 0
Digits(n) == IF n < 10 THEN <<48 + n>> ELSE Digits(n \div 10) \o <<48 + (n % 10)>>

\* target_date.strftime("%Y-%m-%d") for day d of January 2024
DateStr(d) == <<50, 48, 50, 52, 45, 48, 49, 45>> \o (IF d < 10 THEN <<48>> ELSE <<>>) \o Digits(d)

_get_file_path(target_date, rotation_index) ==
    IF rotation_index = 0
    THEN DateStr(target_date) \o JSONL_SUFFIX
    ELSE DateStr(target_date) \o <<DOT>> \o Digits(rotation_index) \o JSONL_SUFFIX

FileExists(files, name) == \E f \in files : f.name = name

FileRecords(files, name) ==
    IF FileExists(files, name) THEN (CHOOSE f \in files : f.name = name).records ELSE <<>>

\* _get_current_file_path: the rotation index to write to
CurrentIndex(files, counters, day) ==
    LET rotation_index == counters[day]
        file_path == _get_file_path(day, rotation_index)
    IN IF FileExists(files, file_path) /\ Len(FileRecords(files, file_path)) >= MaxFileSize
       THEN rotation_index + 1
       ELSE rotation_index

_validate_record_accept_all(record) == TRUE

_validate_record(record) == record.has_timestamp /\ record.has_source

\* open(file_path, "a") and write
AppendToFile(files, name, records) ==
    { f \in files : f.name # name }
        \cup { [name |-> name, records |-> FileRecords(files, name) \o records] }

\* JSONLStorage.write_batch; outcome is what the file system does on this call:
\* "OSError" fails the mkdir of _get_file_path, "StorageError" fails open/write
write_batch(records, files, counters, day, outcome) ==
    IF records = <<>>
    THEN [files |-> files, counters |-> counters, error |-> "", written |-> 0]
    ELSE IF \E i \in DOMAIN records : ~_validate_record(records[i])
    THEN [files |-> files, counters |-> counters, error |-> "StorageError", written |-> 0]
    ELSE IF outcome = "OSError"
    THEN [files |-> files, counters |-> counters, error |-> "OSError", written |-> 0]
    ELSE IF outcome = "StorageError"
    THEN [files |-> files,
          counters |-> [counters EXCEPT ![day] = CurrentIndex(files, counters, day)],
          error |-> "StorageError", written |-> 0]
    ELSE [files |-> AppendToFile(files,
                        _get_file_path(day, CurrentIndex(files, counters, day)), records),
          counters |-> [counters EXCEPT ![day] = CurrentIndex(files, counters, day)],
          error |-> "", written |-> Len(records)]

\* every attempt fails on open/write
AllFail == <<"StorageError", "StorageError", "StorageError">>

\* what the file system does on the attempts of one flush; attempts not listed succeed
FlushOutcomes ==
    { <<>>, <<"StorageError">>, AllFail, <<"OSError">>, <<"StorageError", "OSError">> }

\* the outcome of the write_batch call of one attempt (attempts count from 0)
OutcomeAt(outcomes, attempt) ==
    IF attempt + 1 <= Len(outcomes) THEN outcomes[attempt + 1] ELSE "ok"

RECURSIVE _flush_attempts(_, _, _, _, _, _)
\* _flush_buffer: for attempt in range(self.max_retries), after the buffer was cleared
_flush_attempts(records, files, counters, day, attempt, outcomes) ==
    LET w == write_batch(records, files, counters, day, OutcomeAt(outcomes, attempt))
    IN IF w.error = ""
       THEN [buffer |-> <<>>, files |-> w.files, counters |-> w.counters,
             raised |-> FALSE, ret |-> w.written, attempts |-> attempt + 1]
       ELSE IF w.error = "StorageError"
       THEN IF attempt < MAX_RETRIES - 1
            THEN _flush_attempts(records, files, w.counters, day, attempt + 1, outcomes)
            ELSE [buffer |-> records, files |-> files, counters |-> w.counters,
                  raised |-> TRUE, ret |-> 0, attempts |-> attempt + 1]
       ELSE [buffer |-> <<>>, files |-> files, counters |-> w.counters,
             raised |-> TRUE, ret |-> 0, attempts |-> attempt + 1]

\* _flush_buffer; outcomes lists what the file system does on each write attempt
_flush_buffer(buffer, files, counters, day, outcomes) ==
    IF buffer = <<>>
    THEN [buffer |-> buffer, files |-> files, counters |-> counters, raised |-> FALSE,
          ret |-> 0, attempts |-> 0]
    ELSE _flush_attempts(buffer, files, counters, day, 0, outcomes)

HasPrefix(name, prefix) ==
    Len(name) >= Len(prefix) /\ SubSeq(name, 1, Len(prefix)) = prefix

RECURSIVE LexLess(_, _)
\* a < b for strings
LexLess(a, b) ==
    IF b = <<>> THEN FALSE
    ELSE IF a = <<>> THEN TRUE
    ELSE IF Head(a) # Head(b) THEN Head(a) < Head(b)
    ELSE LexLess(Tail(a), Tail(b))

RECURSIVE Sorted(_)
\* sorted(names)
Sorted(names) ==
    IF names = {} THEN <<>>
    ELSE LET first == CHOOSE n \in names : \A m \in names \ {n} : LexLess(n, m)
         IN <<first>> \o Sorted(names \ {first})

RECURSIVE ReadFiles(_, _, _)
ReadFiles(files, names, i) ==
    IF i > Len(names) THEN <<>>
    ELSE FileRecords(files, names[i]) \o ReadFiles(files, names, i + 1)

RECURSIVE read(_, _, _)
\* JSONLStorage.read: per date, the files matching "{date_str}*.jsonl*", sorted
read(files, start_date, end_date) ==
    IF start_date > end_date THEN <<>>
    ELSE LET matching == { f.name : f \in { g \in files : HasPrefix(g.name, DateStr(start_date)) } }
         IN ReadFiles(files, Sorted(matching), 1) \o read(files, start_date + 1, end_date)

\* StorageManager.write_record for the one sensor name of the store
write_record(r, outcomes) ==
    /\ LET record == [id |-> Len(appended) + 1, has_timestamp |-> r.has_timestamp,
                      has_source |-> r.has_source]
           buffer == Append(store_buffer, record)
           full == Len(buffer) >= BufferSize
           res == _flush_buffer(buffer, store_files, file_counters, today, outcomes)
       IN /\ appended' = Append(appended, record)
          /\ IF full
             THEN /\ store_buffer' = res.buffer
                  /\ store_files' = res.files
                  /\ file_counters' = res.counters
                  /\ store_last' = [op |-> "write_record", ok |-> ~res.raised,
                                    start_date |-> 0, end_date |-> 0, result |-> <<>>,
                                    attempts |-> res.attempts]
             ELSE /\ outcomes = <<>>
                  /\ store_buffer' = buffer
                  /\ store_last' = [op |-> "write_record", ok |-> TRUE,
                                    start_date |-> 0, end_date |-> 0, result |-> <<>>,
                                    attempts |-> 0]
                  /\ UNCHANGED <<store_files, file_counters>>
    /\ UNCHANGED today

WriteRecord(r, outcomes) ==
    /\ Len(appended) < MaxWritten
    /\ write_record(r, outcomes)
    /\ UNCHANGED <<now, notStoreVars>>

Flush(outcomes) ==
    /\ LET res == _flush_buffer(store_buffer, store_files, file_counters, today, outcomes)
       IN /\ store_buffer' = res.buffer
          /\ store_files' = res.files
          /\ file_counters' = res.counters
          /\ store_last' = [op |-> "flush", ok |-> ~res.raised,
                            start_date |-> 0, end_date |-> 0, result |-> <<>>,
                            attempts |-> res.attempts]
    /\ UNCHANGED <<today, appended>>
    /\ UNCHANGED <<now, notStoreVars>>

\* read_records: flush, then read the date range
ReadRecords(start_date, end_date, outcomes) ==
    /\ LET res == _flush_buffer(store_buffer, store_files, file_counters, today, outcomes)
       IN /\ store_buffer' = res.buffer
          /\ store_files' = res.files
          /\ file_counters' = res.counters
          /\ store_last' = [op |-> "read_records", ok |-> ~res.raised,
                            start_date |-> start_date, end_date |-> end_date,
                            result |-> IF res.raised THEN <<>>
                                       ELSE read(res.files, start_date, end_date),
                            attempts |-> res.attempts]
    /\ UNCHANGED <<today, appended>>
    /\ UNCHANGED <<now, notStoreVars>>

\* midnight passes
NextDay ==
    /\ today < 1 + MaxDayChanges
    /\ today' = today + 1
    /\ UNCHANGED <<store_buffer, store_files, file_counters, appended, store_last>>
    /\ UNCHANGED <<now, notStoreVars>>

StoreInit ==
    /\ store_buffer = <<>>
    /\ store_files = {}
    /\ file_counters = [d \in 1..(MaxDayChanges + 2) |-> 0]
    /\ today = 1
    /\ appended = <<>>
    /\ store_last = [op |-> "init", ok |-> TRUE, start_date |-> 0, end_date |-> 0,
                     result |-> <<>>, attempts |-> 0]

StoreNext ==
    \/ \E r \in RecordInputs, outcomes \in {<<>>, AllFail} : WriteRecord(r, outcomes)
    \/ \E outcomes \in FlushOutcomes : Flush(outcomes)
    \/ \E start_date, end_date \in 1..today, outcomes \in {<<>>, AllFail} :
           ReadRecords(start_date, end_date, outcomes)
    \/ NextDay

(***************************************************************************)
(* ThresholdDetector                                                       *)
(* Values and thresholds are integers; a percentage change is the fraction *)
(* <<|value - old| * 100, |old|>>. A parameter key is the sequence of its  *)
(* dot-separated segments. The calibration log entries of a call are kept  *)
(* with the call; the bus has no subscriber while the detector runs alone. *)
(***************************************************************************)
HISTORY_MAXLEN == 1000

\* a rule; the calibrated threshold replaces the default of the first rule
Rule(pattern, change, max, min, above, lookback) ==
    [parameter_pattern |-> pattern, min_change_percent |-> change,
     max_absolute_value |-> max, min_absolute_value |-> min,
     trigger_when_above |-> above, lookback_seconds |-> lookback]

\* _create_default_rules, the rules for crypto prices and time drift
_create_default_rules(calibrated) ==
    << Rule(<<"crypto", "*", "price">>, Some(calibrated), NoneOpt, NoneOpt, NoneOpt, 60),
       Rule(<<"time_drift", "diff_local_ntp_ms">>, Some(150), NoneOpt, NoneOpt, NoneOpt, 60),
       Rule(<<"time_drift", "diff_local_ntp_ms">>, NoneOpt, Some(500), Some(-500), NoneOpt, 60) >>

\* values of "crypto.btcusdt.price.change_pct" at boot: the default and a
\* calibrated percentile of observed changes
CalibratedValues == {1, 0}

\* DATA events handed to process
EventInputs ==
    { [source |-> "crypto", payload |-> << [key |-> <<"btcusdt", "price">>, value |-> v] >>]
          : v \in {100} }
    \cup
    { [source |-> "time_drift", payload |-> << [key |-> <<"diff_local_ntp_ms">>, value |-> v] >>]
          : v \in {-100, 600} }
    \cup
    { [source |-> "crypto", payload |-> << [key |-> <<"btcusdt", "price">>, value |-> 103],
                                           [key |-> <<"ethusdt", "price">>, value |-> v] >>]
          : v \in {0, 5} }

ParamKeys ==
    UNION { { <<e.source>> \o e.payload[i].key : i \in DOMAIN e.payload } : e \in EventInputs }

\* how far event.timestamp lies behind the clock when process is called
EventLags == {0, 70}
DetectorTickSteps == {61}

RECURSIVE _matches_pattern(_, _)
\* re.match of the pattern with "*" turned into ".*": a "*" segment stands for
\* one or more segments of the key
_matches_pattern(param_key, pattern) ==
    IF pattern = <<>> THEN param_key = <<>>
    ELSE IF param_key = <<>> THEN FALSE
    ELSE IF Head(pattern) = "*"
    THEN \E k \in 1..Len(param_key) :
             _matches_pattern(SubSeq(param_key, k + 1, Len(param_key)), Tail(pattern))
    ELSE Head(pattern) = Head(param_key)
         /\ _matches_pattern(Tail(param_key), Tail(pattern))

\* _calculate_severity; "error" is the ZeroDivisionError of change_pct / threshold
_calculate_severity(change_pct, threshold) ==
    IF threshold = 0 THEN "error"
    ELSE IF change_pct[1] >= 3 * threshold * change_pct[2] THEN "critical"
    ELSE IF change_pct[1] >= 2 * threshold * change_pct[2] THEN "high"
    ELSE IF 2 * change_pct[1] >= 3 * threshold * change_pct[2] THEN "medium"
    ELSE "low"

NoAnomaly == [parameter |-> <<>>, value |-> 0, timestamp |-> 0, severity |-> "none"]

Anomaly(param_key, value, timestamp, severity) ==
    [parameter |-> param_key, value |-> value, timestamp |-> timestamp,
     severity |-> severity]

LogEntry(suffix, value, threshold_value, triggered) ==
    [threshold_name |-> suffix, value |-> value, threshold_value |-> threshold_value,
     triggered |-> triggered]

\* the samples of the history the change check looks at
OldValues_whole_history(history, timestamp, rule) == history

OldValues(history, timestamp, rule) ==
    SelectSeq(history, LAMBDA h : h.timestamp >= timestamp - rule.lookback_seconds)

\* abs((value - old_value) / old_value * 100) as a fraction
ChangePct(value, old_value) == <<Abs(value - old_value) * 100, Abs(old_value)>>

NoResult(logged) == [outcome |-> "none", anomaly |-> NoAnomaly, logged |-> logged]

\* the outcome of a change check on a non-zero old value
ChangeOutcome(param_key, value, timestamp, change_pct, threshold) ==
    IF ~(change_pct[1] >= threshold * change_pct[2])
    THEN NoResult(<<LogEntry("change_pct", change_pct, threshold, FALSE)>>)
    ELSE IF _calculate_severity(change_pct, threshold) = "error"
    THEN [outcome |-> "raised", anomaly |-> NoAnomaly,
          logged |-> <<LogEntry("change_pct", change_pct, threshold, TRUE)>>]
    ELSE [outcome |-> "anomaly",
          anomaly |-> Anomaly(param_key, value, timestamp,
                              _calculate_severity(change_pct, threshold)),
          logged |-> <<LogEntry("change_pct", change_pct, threshold, TRUE)>>]

\* the percentage-change part of _check_rule
CheckChange(history, param_key, value, rule, timestamp) ==
    IF \/ rule.min_change_percent = NoneOpt
       \/ Len(history) < 2
       \/ Len(OldValues(history, timestamp, rule)) < 2
    THEN NoResult(<<>>)
    ELSE IF OldValues(history, timestamp, rule)[1].value = 0
    THEN NoResult(<<>>)
    ELSE ChangeOutcome(param_key, value, timestamp,
                       ChangePct(value, OldValues(history, timestamp, rule)[1].value),
                       Get(rule.min_change_percent))

Over(rule, value) ==
    rule.max_absolute_value # NoneOpt /\ value > Get(rule.max_absolute_value)

Under(rule, value) ==
    rule.min_absolute_value # NoneOpt /\ value < Get(rule.min_absolute_value)

Above(rule, value) ==
    rule.trigger_when_above # NoneOpt /\ value >= Get(rule.trigger_when_above)

LogMax(rule, value) ==
    IF rule.max_absolute_value # NoneOpt
    THEN <<LogEntry("max", <<value, 1>>, Get(rule.max_absolute_value), Over(rule, value))>>
    ELSE <<>>

LogMin(rule, value) ==
    IF rule.min_absolute_value # NoneOpt
    THEN <<LogEntry("min", <<value, 1>>, Get(rule.min_absolute_value), Under(rule, value))>>
    ELSE <<>>

LogAbove(rule, value) ==
    IF rule.trigger_when_above # NoneOpt
    THEN <<LogEntry("trigger_above", <<value, 1>>, Get(rule.trigger_when_above),
                    Above(rule, value))>>
    ELSE <<>>

HighAnomaly(param_key, value, timestamp, logged) ==
    [outcome |-> "anomaly", anomaly |-> Anomaly(param_key, value, timestamp, "high"),
     logged |-> logged]

WithLogged(res, logged) == [res EXCEPT !.logged = logged \o res.logged]

\* mutant: a triggered maximum does not end the evaluation of the rule
CheckThresholds_no_return(history, param_key, value, rule, timestamp) ==
    IF Over(rule, value)
    THEN HighAnomaly(param_key, value, timestamp, LogMax(rule, value) \o LogMin(rule, value))
    ELSE WithLogged(CheckChange(history, param_key, value, rule, timestamp),
                    LogMax(rule, value) \o LogMin(rule, value) \o LogAbove(rule, value))

\* _check_rule on the history that already holds the new sample
CheckThresholds(history, param_key, value, rule, timestamp) ==
    IF Over(rule, value)
    THEN HighAnomaly(param_key, value, timestamp, LogMax(rule, value))
    ELSE IF Under(rule, value)
    THEN HighAnomaly(param_key, value, timestamp, LogMax(rule, value) \o LogMin(rule, value))
    ELSE IF Above(rule, value)
    THEN HighAnomaly(param_key, value, timestamp,
                     LogMax(rule, value) \o LogMin(rule, value) \o LogAbove(rule, value))
    ELSE WithLogged(CheckChange(history, param_key, value, rule, timestamp),
                    LogMax(rule, value) \o LogMin(rule, value) \o LogAbove(rule, value))

\* _check_rule: store the sample, then check; st is the state of one process call
_check_rule(st, param_key, value, r, timestamp) ==
    LET history == DequeAppend(st.history[param_key],
                               [timestamp |-> timestamp, value |-> value], HISTORY_MAXLEN)
        res == CheckThresholds(history, param_key, value, det_rules[r], timestamp)
        call == [param |-> param_key, rule |-> r, value |-> value, timestamp |-> timestamp,
                 at_len |-> Len(history), outcome |-> res.outcome, logged |-> res.logged]
    IN [st EXCEPT !.history[param_key] = history,
                  !.calls = Append(st.calls, call),
                  !.created = IF res.outcome = "anomaly" THEN st.created + 1 ELSE st.created,
                  !.anomalies = IF res.outcome = "anomaly"
                                THEN Append(st.anomalies, res.anomaly) ELSE st.anomalies,
                  !.raised = (res.outcome = "raised")]

RECURSIVE CheckRulesFrom(_, _, _, _, _)
\* the loop over self._rules for one payload field, from rule r on
CheckRulesFrom(st, param_key, value, r, timestamp) ==
    IF r > Len(det_rules) THEN st
    ELSE IF ~_matches_pattern(param_key, det_rules[r].parameter_pattern)
    THEN CheckRulesFrom(st, param_key, value, r + 1, timestamp)
    ELSE LET after == _check_rule(st, param_key, value, r, timestamp)
         IN IF after.raised \/ after.calls[Len(after.calls)].outcome = "anomaly"
            THEN after
            ELSE CheckRulesFrom(after, param_key, value, r + 1, timestamp)

RECURSIVE ProcessFrom(_, _, _, _)
\* the loop over event.payload, from field i on
ProcessFrom(st, event, timestamp, i) ==
    IF i > Len(event.payload) \/ st.raised THEN st
    ELSE ProcessFrom(CheckRulesFrom(st, <<event.source>> \o event.payload[i].key,
                                    event.payload[i].value, 1, timestamp),
                     event, timestamp, i + 1)

\* the samples a _check_rule call had in its lookback window
CallWindow(history, call) ==
    SelectSeq(SubSeq(history[call.param], 1, call.at_len),
              LAMBDA h : h.timestamp >= call.timestamp
                                          - det_rules[call.rule].lookback_seconds)

AllEqual(window) == \A i, j \in DOMAIN window : window[i].value = window[j].value

\* the rule has only min_change_percent set
PureChangeRule(rule) ==
    /\ rule.min_change_percent # NoneOpt
    /\ rule.max_absolute_value = NoneOpt
    /\ rule.min_absolute_value = NoneOpt
    /\ rule.trigger_when_above = NoneOpt

\* ThresholdDetector(event_bus) at boot, with the calibrated threshold loaded
Construct(calibrated) ==
    /\ det_rules = <<>>
    /\ det_rules' = _create_default_rules(calibrated)
    /\ det_history' = [k \in ParamKeys |-> <<>>]
    /\ anomaly_count' = 0
    /\ UNCHANGED <<det_last, seen_equal_window, seen_zero_first, det_processed, det_ticks>>
    /\ UNCHANGED <<now, total_published, notDetectorVars>>

Process(event, lag) ==
    /\ det_rules # <<>>
    /\ det_processed < MaxProcessed
    /\ subscriptions = <<>>
    /\ LET timestamp == now - lag
           st == ProcessFrom([history |-> det_history, calls |-> <<>>, created |-> 0,
                              anomalies |-> <<>>, raised |-> FALSE],
                             event, timestamp, 1)
           change_calls == { k \in DOMAIN st.calls :
                                 /\ PureChangeRule(det_rules[st.calls[k].rule])
                                 /\ Len(CallWindow(st.history, st.calls[k])) >= 2 }
       IN /\ det_history' = st.history
          /\ anomaly_count' = anomaly_count + st.created
          /\ total_published' = total_published + st.created
          /\ det_last' = [event |-> Some(event), calls |-> st.calls, raised |-> st.raised,
                          anomalies |-> IF st.raised THEN <<>> ELSE st.anomalies]
          /\ seen_equal_window' =
                 ( seen_equal_window
                   \/ \E k \in change_calls :
                          LET w == CallWindow(st.history, st.calls[k])
                          IN /\ AllEqual(w)
                             /\ w[1].value # 0
                             /\ \E h \in DOMAIN st.history[st.calls[k].param] :
                                    st.history[st.calls[k].param][h].value # w[1].value )
          /\ seen_zero_first' =
                 ( seen_zero_first
                   \/ \E k \in change_calls :
                          LET w == CallWindow(st.history, st.calls[k])
                          IN w[1].value = 0 /\ st.calls[k].value # 0 )
    /\ det_processed' = det_processed + 1
    /\ UNCHANGED <<det_rules, det_ticks>>
    /\ UNCHANGED <<now, notDetectorVars>>

DetectorTick(d) ==
    /\ det_ticks < MaxDetectorTicks
    /\ now' = now + d
    /\ det_ticks' = det_ticks + 1
    /\ UNCHANGED <<det_rules, det_history, anomaly_count, det_last, seen_equal_window,
                   seen_zero_first, det_processed>>
    /\ UNCHANGED <<total_published, notDetectorVars>>

DetectorInit ==
    /\ det_rules = <<>>
    /\ det_history = [k \in ParamKeys |-> <<>>]
    /\ anomaly_count = 0
    /\ det_last = [event |-> NoneOpt, calls |-> <<>>, raised |-> FALSE, anomalies |-> <<>>]
    /\ seen_equal_window = FALSE
    /\ seen_zero_first = FALSE
    /\ det_processed = 0
    /\ det_ticks = 0

DetectorNext ==
    \/ \E calibrated \in CalibratedValues : Construct(calibrated)
    \/ \E event \in EventInputs, lag \in EventLags : Process(event, lag)
    \/ \E d \in DetectorTickSteps : DetectorTick(d)

(***************************************************************************)
(* EventBus under concurrent callers                                       *)
(* subscribe and unsubscribe run whole under the bus lock. publish is      *)
(* split where another thread can run in between: its locked section, one  *)
(* pass of its loop up to the read of _total_delivered, and the write of   *)
(* _total_delivered, which no lock covers. A subscription taken out of the  *)
(* table lives on while a running publish still holds it in its snapshot.  *)
(***************************************************************************)
ThreadIds == {1, 2}

IdleThread == [pc |-> "idle", event |-> 0, subs |-> <<>>, i |-> 0, delivered |-> 0, tmp |-> 0]

notBusThreadVars == <<trackerVars, schedVars, clusterVars, indexVars, storeVars, detectorVars,
                      sensorVars, healthVars, watcherVars, trackerThreadVars, calibVars, flushVars, nestVars>>

\* the subscription object with this id, in the table or only in snapshots
ObjectOf(id) ==
    IF SubIndex(id) # 0 THEN subscriptions[SubIndex(id)]
    ELSE detached[CHOOSE k \in DOMAIN detached : detached[k].id = id]

\* move to the next subscription of the snapshot, or return from publish
NextPass(th) ==
    IF th.i + 1 > Len(th.subs) THEN IdleThread
    ELSE [th EXCEPT !.pc = "deliver", !.i = th.i + 1, !.tmp = 0]

\* the locked section of publish: count the call and copy the table
ThreadPublishBegin(t, e) ==
    /\ threads[t].pc = "idle"
    /\ total_published < MaxPublished
    /\ total_published' = total_published + 1
    /\ publish_calls' = publish_calls + 1
    /\ threads' =
           [threads EXCEPT ![t] =
                NextPass([pc |-> "deliver",
                          event |-> [event_type |-> e.event_type, source |-> e.source,
                                     severity |-> e.severity, n |-> total_published + 1],
                          subs |-> [k \in DOMAIN subscriptions |-> subscriptions[k].id],
                          i |-> 0, delivered |-> 0, tmp |-> 0])]
    /\ UNCHANGED <<subscriptions, total_delivered, total_dropped, subscribe_calls,
                   removed_any, bus_last, detached, callbacks_returned>>
    /\ UNCHANGED <<now, notBusThreadVars>>

\* one pass of the loop: filter, callback, then either the read of
\* _total_delivered or the except branch under the subscription's lock
ThreadDeliver(t, ok) ==
    LET th == threads[t]
        sub == ObjectOf(th.subs[th.i])
        b == BufferEvent(sub, th.event)
    IN /\ th.pc = "deliver"
       /\ IF ~Accepts(sub, th.event)
          THEN /\ ok
               /\ threads' = [threads EXCEPT ![t] = NextPass(th)]
               /\ UNCHANGED <<subscriptions, detached, total_dropped, callbacks_returned>>
          ELSE IF ok
          THEN /\ threads' = [threads EXCEPT ![t].pc = "store",
                                             ![t].delivered = th.delivered + 1,
                                             ![t].tmp = total_delivered]
               /\ callbacks_returned' = callbacks_returned + 1
               /\ UNCHANGED <<subscriptions, detached, total_dropped>>
          ELSE /\ threads' = [threads EXCEPT ![t] = NextPass(th)]
               /\ total_dropped' = total_dropped + b.dropped
               /\ IF SubIndex(sub.id) # 0
                  THEN /\ subscriptions' = [subscriptions EXCEPT ![SubIndex(sub.id)] = b.sub]
                       /\ UNCHANGED detached
                  ELSE /\ detached' = [k \in DOMAIN detached |->
                                           IF detached[k].id = sub.id THEN b.sub
                                           ELSE detached[k]]
                       /\ UNCHANGED subscriptions
               /\ UNCHANGED callbacks_returned
       /\ UNCHANGED <<total_published, total_delivered, subscribe_calls, removed_any,
                      bus_last, publish_calls>>
       /\ UNCHANGED <<now, notBusThreadVars>>

\* the write that ends self._total_delivered += 1
ThreadStore(t) ==
    /\ threads[t].pc = "store"
    /\ total_delivered' = threads[t].tmp + 1
    /\ threads' = [threads EXCEPT ![t] = NextPass(threads[t])]
    /\ UNCHANGED <<subscriptions, total_published, total_dropped, subscribe_calls,
                   removed_any, bus_last, detached, publish_calls, callbacks_returned>>
    /\ UNCHANGED <<now, notBusThreadVars>>

\* unsubscribe while publishes may be running
ThreadUnsubscribe(subscription_id) ==
    LET held == \E t \in ThreadIds :
                    \E k \in DOMAIN threads[t].subs :
                        k >= threads[t].i /\ threads[t].subs[k] = subscription_id
    IN /\ SubIndex(subscription_id) # 0
       /\ subscriptions' = SelectSeq(subscriptions, LAMBDA s : s.id # subscription_id)
       /\ detached' = IF held THEN Append(detached, subscriptions[SubIndex(subscription_id)])
                      ELSE detached
       /\ removed_any' = TRUE
       /\ bus_last' = [op |-> "unsubscribe", arg |-> subscription_id, invoked |-> <<>>,
                       raised |-> {}, dropped |-> 0, ret |-> 1]
       /\ UNCHANGED <<total_published, total_delivered, total_dropped, subscribe_calls,
                      threads, publish_calls, callbacks_returned>>
       /\ UNCHANGED <<now, notBusThreadVars>>

ThreadsInit ==
    /\ threads = [t \in ThreadIds |-> IdleThread]
    /\ detached = <<>>
    /\ publish_calls = 0
    /\ callbacks_returned = 0

ThreadsNext ==
    \/ \E a \in SubscribeInputs : Subscribe(a.event_types, a.sources, a.min_severity)
    \/ \E id \in 1..MaxSubscribes : ThreadUnsubscribe(id)
    \/ \E t \in ThreadIds, e \in PublishInputs : ThreadPublishBegin(t, e)
    \/ \E t \in ThreadIds, ok \in BOOLEAN : ThreadDeliver(t, ok)
    \/ \E t \in ThreadIds : ThreadStore(t)

(***************************************************************************)
(* EventBus.flush_buffer beside running publishes                          *)
(* flush_buffer takes the subscription's lock to read buffer[0], releases  *)
(* it for the callback and takes it again for popleft; the except branch   *)
(* of a publish can run in between.                                        *)
(***************************************************************************)
notFlushVars == <<trackerVars, schedVars, clusterVars, indexVars, storeVars, detectorVars,
                  sensorVars, healthVars, watcherVars, trackerThreadVars, calibVars,
                  nestVars>>

IdleFlusher(calls, handled) ==
    [pc |-> "idle", sub |-> 0, event |-> NoneOpt, delivered |-> 0, calls |-> calls,
     handled |-> handled, raised |-> FALSE]

\* the locked lookup of flush_buffer
FlushBegin(subscription_id) ==
    /\ flusher.pc = "idle"
    /\ flusher.calls < MaxFlushCalls
    /\ flusher' = IF SubIndex(subscription_id) = 0
                  THEN IdleFlusher(flusher.calls + 1, flusher.handled)
                  ELSE [IdleFlusher(flusher.calls + 1, flusher.handled)
                            EXCEPT !.pc = "peek", !.sub = subscription_id]
    /\ UNCHANGED <<busVars, threadVars>>
    /\ UNCHANGED <<now, notFlushVars>>

\* with sub._lock: break on an empty buffer, else event = sub.buffer[0]
FlushPeek ==
    /\ flusher.pc = "peek"
    /\ flusher' = IF ObjectOf(flusher.sub).buffer = <<>>
                  THEN [flusher EXCEPT !.pc = "idle"]
                  ELSE [flusher EXCEPT !.pc = "call",
                                       !.event = Some(Head(ObjectOf(flusher.sub).buffer))]
    /\ UNCHANGED <<busVars, threadVars>>
    /\ UNCHANGED <<now, notFlushVars>>

\* sub.callback(event), outside every lock: it returns or raises
FlushCall(ok) ==
    /\ flusher.pc = "call"
    /\ flusher' = IF ok
                  THEN [flusher EXCEPT !.pc = "pop",
                                       !.handled = @ \cup {Get(flusher.event)}]
                  ELSE [flusher EXCEPT !.pc = "idle"]
    /\ UNCHANGED <<busVars, threadVars>>
    /\ UNCHANGED <<now, notFlushVars>>

\* with sub._lock: sub.buffer.popleft(); then delivered += 1
FlushPop ==
    LET sub == ObjectOf(flusher.sub)
        popped == [sub EXCEPT !.buffer = Tail(sub.buffer)]
    IN /\ flusher.pc = "pop"
       /\ IF sub.buffer = <<>>
          THEN /\ flusher' = [flusher EXCEPT !.pc = "idle", !.raised = TRUE]
               /\ UNCHANGED <<subscriptions, detached>>
          ELSE /\ flusher' = [flusher EXCEPT !.pc = "peek", !.event = NoneOpt,
                                             !.delivered = @ + 1]
               /\ IF SubIndex(sub.id) # 0
                  THEN /\ subscriptions' = [subscriptions EXCEPT ![SubIndex(sub.id)] = popped]
                       /\ UNCHANGED detached
                  ELSE /\ detached' = [k \in DOMAIN detached |->
                                           IF detached[k].id = sub.id THEN popped
                                           ELSE detached[k]]
                       /\ UNCHANGED subscriptions
       /\ UNCHANGED <<total_published, total_delivered, total_dropped, subscribe_calls,
                      removed_any, bus_last, threads, publish_calls, callbacks_returned>>
       /\ UNCHANGED <<now, notFlushVars>>

FlushInit == flusher = IdleFlusher(0, {})

FlushNext ==
    \/ \E a \in SubscribeInputs : Subscribe(a.event_types, a.sources, a.min_severity)
    \/ \E t \in ThreadIds, e \in PublishInputs : ThreadPublishBegin(t, e)
    \/ \E t \in ThreadIds, ok \in BOOLEAN : ThreadDeliver(t, ok)
    \/ \E t \in ThreadIds : ThreadStore(t)
    \/ \E id \in 1..MaxSubscribes : FlushBegin(id)
    \/ FlushPeek
    \/ \E ok \in BOOLEAN : FlushCall(ok)
    \/ FlushPop

(***************************************************************************)
(* EventBus.publish called from inside a callback                          *)
(* The DATA subscriber of the application runs the threshold detector,     *)
(* which publishes an ANOMALY event for every anomaly it creates. Calls    *)
(* nest on one thread: a frame of the stack is one running publish.        *)
(***************************************************************************)
notNestVars == <<trackerVars, schedVars, busVars, clusterVars, indexVars, storeVars,
                 detectorVars, threadVars, sensorVars, healthVars, watcherVars,
                 trackerThreadVars, calibVars, flushVars>>

\* subscribe(on_data, event_types=[EventType.DATA]); on_data runs the detector
OnDataSub(id) ==
    [id |-> id,
     filter |-> Some([event_types |-> Some(<<"data">>), sources |-> NoneOpt,
                      min_severity |-> NoneOpt]),
     buffer |-> <<>>, max_buffer_size |-> MaxBufferSize, dropped_count |-> 0,
     detector |-> TRUE]

\* a subscriber that does not publish, with the given event types (or no filter)
PlainSub(id, event_types) ==
    [id |-> id,
     filter |-> IF TruthyList(event_types)
                THEN Some([event_types |-> event_types, sources |-> NoneOpt,
                           min_severity |-> NoneOpt])
                ELSE NoneOpt,
     buffer |-> <<>>, max_buffer_size |-> MaxBufferSize, dropped_count |-> 0,
     detector |-> FALSE]

\* subscription tables, in subscription order
NestedTables ==
    { <<OnDataSub(1)>>,
      <<OnDataSub(1), PlainSub(2, Some(<<"anomaly">>))>>,
      <<PlainSub(1, NoneOpt), OnDataSub(2), PlainSub(3, Some(<<"anomaly">>))>> }

\* a sensor reading's event, and AnomalyEvent.to_event()
SensorDataEvent(n) ==
    [event_type |-> "data", source |-> "s1", severity |-> "info", n |-> n]
AnomalyToEvent(n) ==
    [event_type |-> "anomaly", source |-> "anomaly_detector", severity |-> "critical",
     n |-> n]

TopFrame == nest.stack[Len(nest.stack)]

\* the stack with its top frame replaced
WithTop(frame) == [nest.stack EXCEPT ![Len(nest.stack)] = frame]

\* a call of publish(event) begins, from the frame with serial parent (0: none)
PushPublish(stack, event) ==
    Append(stack, [event |-> event, pc |-> "acquire", subs |-> <<>>, i |-> 0,
                   delivered |-> 0, pending |-> 0])

\* a sensor publishes a reading
NestedPublish ==
    /\ nest.stack = <<>>
    /\ nest.published < MaxNestedPublished
    /\ nest' = [nest EXCEPT !.stack = PushPublish(nest.stack,
                                                 SensorDataEvent(nest.published + 1)),
                            !.published = @ + 1,
                            !.parent = Append(@, 0)]
    /\ UNCHANGED <<now, notNestVars>>

\* with self._lock: the RLock is taken by the thread (again, if it holds it)
NestedAcquire ==
    /\ nest.stack # <<>>
    /\ TopFrame.pc = "acquire"
    /\ nest' = [nest EXCEPT !.stack = WithTop([TopFrame EXCEPT !.pc = "locked"]),
                            !.lock = @ + 1]
    /\ UNCHANGED <<now, notNestVars>>

\* the body and the end of the with block: count, copy the table, release
NestedSnapshot ==
    /\ nest.stack # <<>>
    /\ TopFrame.pc = "locked"
    /\ nest' = [nest EXCEPT
                    !.stack = WithTop([TopFrame EXCEPT
                                           !.pc = "deliver",
                                           !.subs = [k \in DOMAIN nest.subs |-> k],
                                           !.i = 1]),
                    !.total_published = @ + 1,
                    !.lock = @ - 1]
    /\ UNCHANGED <<now, notNestVars>>

\* one pass of the loop up to the entry of the callback, or the return of
\* publish after the last pass; anomalies is how many anomalies the detector
\* will create on this event
NestedDeliver(anomalies) ==
    /\ nest.stack # <<>>
    /\ TopFrame.pc = "deliver"
    /\ IF TopFrame.i > Len(TopFrame.subs)
       THEN /\ anomalies = 0
            /\ nest' = [nest EXCEPT !.stack = SubSeq(@, 1, Len(@) - 1),
                                    !.returned = Append(@, TopFrame.event.n)]
       ELSE IF ~Accepts(nest.subs[TopFrame.subs[TopFrame.i]], TopFrame.event)
       THEN /\ anomalies = 0
            /\ nest' = [nest EXCEPT !.stack = WithTop([TopFrame EXCEPT !.i = @ + 1])]
       ELSE /\ (anomalies > 0 => nest.subs[TopFrame.subs[TopFrame.i]].detector)
            /\ nest' = [nest EXCEPT
                            !.stack = WithTop([TopFrame EXCEPT !.pc = "callback",
                                                               !.pending = anomalies]),
                            !.log = Append(@, [sub |-> TopFrame.subs[TopFrame.i],
                                               event |-> TopFrame.event,
                                               depth |-> Len(nest.stack)])]
    /\ UNCHANGED <<now, notNestVars>>

\* _create_anomaly inside the callback: self.event_bus.publish(anomaly.to_event())
CallbackPublish ==
    /\ nest.stack # <<>>
    /\ TopFrame.pc = "callback"
    /\ TopFrame.pending > 0
    /\ nest.published < MaxNestedPublished
    /\ nest' = [nest EXCEPT
                    !.stack = PushPublish(WithTop([TopFrame EXCEPT !.pending = @ - 1]),
                                          AnomalyToEvent(nest.published + 1)),
                    !.published = @ + 1,
                    !.parent = Append(@, TopFrame.event.n)]
    /\ UNCHANGED <<now, notNestVars>>

\* the callback returns or raises: the rest of the pass
CallbackReturn(ok) ==
    /\ nest.stack # <<>>
    /\ TopFrame.pc = "callback"
    /\ TopFrame.pending = 0 \/ ~ok \/ nest.published >= MaxNestedPublished
    /\ LET k == TopFrame.subs[TopFrame.i]
           b == BufferEvent(nest.subs[k], TopFrame.event)
       IN nest' = IF ok
                  THEN [nest EXCEPT
                            !.stack = WithTop([TopFrame EXCEPT !.pc = "deliver", !.i = @ + 1,
                                                               !.pending = 0,
                                                               !.delivered = @ + 1]),
                            !.total_delivered = @ + 1]
                  ELSE [nest EXCEPT
                            !.stack = WithTop([TopFrame EXCEPT !.pc = "deliver", !.i = @ + 1,
                                                               !.pending = 0]),
                            !.subs[k] = b.sub,
                            !.total_dropped = @ + b.dropped]
    /\ UNCHANGED <<now, notNestVars>>

NewNest(subs) ==
    [subs |-> subs, stack |-> <<>>, lock |-> 0, log |-> <<>>, returned |-> <<>>,
     parent |-> <<>>, published |-> 0, total_published |-> 0, total_delivered |-> 0,
     total_dropped |-> 0]

NestInit == nest = NewNest(<<OnDataSub(1)>>)

NestNext ==
    \/ NestedPublish
    \/ NestedAcquire
    \/ NestedSnapshot
    \/ \E anomalies \in 0..MaxAnomaliesPerEvent : NestedDeliver(anomalies)
    \/ CallbackPublish
    \/ \E ok \in BOOLEAN : CallbackReturn(ok)

(***************************************************************************)
(* BaseSensor.safe_collect                                                 *)
(* The sensor has an event bus, as every sensor the application builds.    *)
(* collect either returns a reading or raises; a dict is a sequence of     *)
(* [key, value] items in insertion order, with values written as strings.  *)
(***************************************************************************)
\* SensorConfig.max_retries values explored
MaxRetriesInputs == {0, 1, 3}

\* what collect returns when it succeeds
ReadingInputs ==
    { [source |-> "crypto", data |-> <<[key |-> "price", value |-> "42"]>>],
      [source |-> "system", data |-> <<[key |-> "source", value |-> "7"],
                                       [key |-> "cpu", value |-> "1"]>>] }

\* d[key] = value on a dict
DictSet(d, key, value) ==
    IF \E i \in DOMAIN d : d[i].key = key
    THEN [i \in DOMAIN d |-> IF d[i].key = key THEN [key |-> key, value |-> value] ELSE d[i]]
    ELSE Append(d, [key |-> key, value |-> value])

\* SensorReading.to_dict without its timestamp entry, which to_event pops:
\* the source, then the data fields, a reserved key prefixed with data_
RECURSIVE to_dict(_, _)
to_dict(result, data) ==
    IF data = <<>> THEN result
    ELSE LET key == Head(data).key
             stored == CASE key = "timestamp" -> "data_timestamp"
                         [] key = "source" -> "data_source"
                         [] key = "_metadata" -> "data__metadata"
                         [] OTHER -> key
         IN to_dict(DictSet(result, stored, Head(data).value), Tail(data))

\* SensorReading.to_event
to_event(reading) ==
    [event_type |-> "data", source |-> reading.source,
     payload |-> to_dict(<<[key |-> "source", value |-> reading.source]>>, reading.data)]

\* the retry loop of safe_collect from the given attempt on, and what follows
\* it; outcomes[k] tells whether the k-th collect call returns
RECURSIVE Attempts_no_return(_, _, _, _, _, _)
Attempts_no_return(st, attempt, name, max_retries, outcomes, reading) ==
    IF attempt >= max_retries
    THEN [st EXCEPT !.status = "error",
                    !.events = Append(st.events,
                        [event_type |-> "error", source |-> name,
                         payload |-> <<[key |-> "error",
                                        value |-> IF st.collects = 0 THEN "None"
                                                  ELSE "collect failed"],
                                       [key |-> "consecutive_errors",
                                        value |-> st.consecutive_errors]>>])]
    ELSE IF outcomes[attempt + 1]
    THEN Attempts_no_return(
             [st EXCEPT !.last_reading = Some(reading),
                        !.success_count = st.success_count + 1,
                        !.consecutive_errors = 0,
                        !.status = "running",
                        !.collects = st.collects + 1,
                        !.events = Append(st.events, to_event(reading)),
                        !.ret = Some(reading)],
             attempt + 1, name, max_retries, outcomes, reading)
    ELSE Attempts_no_return(
             [st EXCEPT !.error_count = st.error_count + 1,
                        !.consecutive_errors = st.consecutive_errors + 1,
                        !.collects = st.collects + 1],
             attempt + 1, name, max_retries, outcomes, reading)

RECURSIVE Attempts(_, _, _, _, _, _)
Attempts(st, attempt, name, max_retries, outcomes, reading) ==
    IF attempt >= max_retries
    THEN [st EXCEPT !.status = "error",
                    !.events = Append(st.events,
                        [event_type |-> "error", source |-> name,
                         payload |-> <<[key |-> "error",
                                        value |-> IF st.collects = 0 THEN "None"
                                                  ELSE "collect failed"],
                                       [key |-> "consecutive_errors",
                                        value |-> st.consecutive_errors]>>]),
                    !.ret = NoneOpt]
    ELSE IF outcomes[attempt + 1]
    THEN [st EXCEPT !.last_reading = Some(reading),
                    !.success_count = st.success_count + 1,
                    !.consecutive_errors = 0,
                    !.status = "running",
                    !.collects = st.collects + 1,
                    !.events = Append(st.events, to_event(reading)),
                    !.ret = Some(reading)]
    ELSE Attempts([st EXCEPT !.error_count = st.error_count + 1,
                             !.consecutive_errors = st.consecutive_errors + 1,
                             !.collects = st.collects + 1],
                  attempt + 1, name, max_retries, outcomes, reading)

\* BaseSensor.safe_collect of the sensor called name
SafeCollect(name, max_retries, outcomes, reading) ==
    /\ sensor_calls < MaxSafeCollects
    /\ subscriptions = <<>>
    /\ LET st == Attempts([status |-> sensor_status,
                           error_count |-> sensor_counts.error_count,
                           consecutive_errors |-> sensor_counts.consecutive_errors,
                           success_count |-> sensor_counts.success_count,
                           last_reading |-> sensor_last_reading,
                           collects |-> 0, events |-> <<>>, ret |-> NoneOpt],
                          0, name, max_retries, outcomes, reading)
       IN /\ sensor_status' = st.status
          /\ sensor_counts' = [error_count |-> st.error_count,
                               consecutive_errors |-> st.consecutive_errors,
                               success_count |-> st.success_count]
          /\ sensor_last_reading' = st.last_reading
          /\ total_published' = total_published + Len(st.events)
          /\ sensor_last' = [op |-> "safe_collect", name |-> name,
                             max_retries |-> max_retries, outcomes |-> outcomes,
                             reading |-> reading, collects |-> st.collects,
                             events |-> st.events, ret |-> st.ret]
    /\ sensor_calls' = sensor_calls + 1
    /\ UNCHANGED <<now, notSensorVars>>

SensorInit ==
    /\ sensor_status = "stopped"
    /\ sensor_counts = [error_count |-> 0, consecutive_errors |-> 0, success_count |-> 0]
    /\ sensor_last_reading = NoneOpt
    /\ sensor_calls = 0
    /\ sensor_last = [op |-> "init"]

SensorNext ==
    \E max_retries \in MaxRetriesInputs, reading \in ReadingInputs :
        \E outcomes \in [1..max_retries -> BOOLEAN] :
            SafeCollect(reading.source, max_retries, outcomes, reading)

(***************************************************************************)
(* HealthMonitor                                                           *)
(* Built with the default failure_threshold and an on_sensor_disabled      *)
(* callback that returns; the timestamps and messages of SensorHealth are  *)
(* left out.                                                               *)
(***************************************************************************)
SensorNames == {"system", "crypto"}

\* failure_threshold of HealthMonitor.__init__
FAILURE_THRESHOLD == 3

\* SensorHealth(name=name)
SensorHealth(name) ==
    [name |-> name, status |-> "stopped", consecutive_failures |-> 0,
     total_successes |-> 0, total_failures |-> 0, disabled |-> FALSE]

\* self._sensors[name] after "if name not in self._sensors: register_sensor(name)"
HealthOf(name) ==
    IF sensors_health[name] = NoneOpt THEN SensorHealth(name) ELSE Get(sensors_health[name])

\* HealthMonitor.record_success
RecordSuccess(name) ==
    /\ health_ops < MaxHealthOps
    /\ sensors_health' =
           [sensors_health EXCEPT ![name] =
                Some([HealthOf(name) EXCEPT !.status = "running",
                                            !.consecutive_failures = 0,
                                            !.total_successes = @ + 1])]
    /\ streak' = [streak EXCEPT ![name] = 0]
    /\ health_ops' = health_ops + 1
    /\ health_last' = [op |-> "record_success", name |-> name]
    /\ UNCHANGED disabled_fired
    /\ UNCHANGED <<now, notHealthVars>>

\* record_failure disabling the sensor whenever the threshold is met
RecordFailure_disable_again(name) ==
    LET health == [HealthOf(name) EXCEPT !.status = "error",
                                         !.consecutive_failures = @ + 1,
                                         !.total_failures = @ + 1]
        disable == health.consecutive_failures >= FAILURE_THRESHOLD
    IN /\ health_ops < MaxHealthOps
       /\ sensors_health' =
              [sensors_health EXCEPT ![name] =
                   Some(IF disable
                        THEN [health EXCEPT !.disabled = TRUE, !.status = "stopped"]
                        ELSE health)]
       /\ disabled_fired' = [disabled_fired EXCEPT ![name] = @ + (IF disable THEN 1 ELSE 0)]
       /\ streak' = [streak EXCEPT ![name] = @ + 1]
       /\ health_ops' = health_ops + 1
       /\ health_last' = [op |-> "record_failure", name |-> name]
       /\ UNCHANGED <<now, notHealthVars>>

\* HealthMonitor.record_failure, with _disable_sensor and its callback
RecordFailure(name) ==
    LET health == [HealthOf(name) EXCEPT !.status = "error",
                                         !.consecutive_failures = @ + 1,
                                         !.total_failures = @ + 1]
        disable == ~health.disabled /\ health.consecutive_failures >= FAILURE_THRESHOLD
    IN /\ health_ops < MaxHealthOps
       /\ sensors_health' =
              [sensors_health EXCEPT ![name] =
                   Some(IF disable
                        THEN [health EXCEPT !.disabled = TRUE, !.status = "stopped"]
                        ELSE health)]
       /\ disabled_fired' = [disabled_fired EXCEPT ![name] = @ + (IF disable THEN 1 ELSE 0)]
       /\ streak' = [streak EXCEPT ![name] = @ + 1]
       /\ health_ops' = health_ops + 1
       /\ health_last' = [op |-> "record_failure", name |-> name]
       /\ UNCHANGED <<now, notHealthVars>>

\* HealthMonitor.enable_sensor
EnableSensor(name) ==
    /\ health_ops < MaxHealthOps
    /\ sensors_health' =
           IF sensors_health[name] = NoneOpt THEN sensors_health
           ELSE [sensors_health EXCEPT ![name] =
                     Some([HealthOf(name) EXCEPT !.disabled = FALSE,
                                                 !.consecutive_failures = 0,
                                                 !.status = "stopped"])]
    /\ streak' = [streak EXCEPT ![name] = 0]
    /\ health_ops' = health_ops + 1
    /\ health_last' = [op |-> "enable_sensor", name |-> name]
    /\ UNCHANGED disabled_fired
    /\ UNCHANGED <<now, notHealthVars>>

HealthInit ==
    /\ sensors_health = [n \in SensorNames |-> NoneOpt]
    /\ disabled_fired = [n \in SensorNames |-> 0]
    /\ streak = [n \in SensorNames |-> 0]
    /\ health_ops = 0
    /\ health_last = [op |-> "init", name |-> "-"]

HealthNext ==
    \/ \E n \in SensorNames : RecordSuccess(n)
    \/ \E n \in SensorNames : RecordFailure(n)
    \/ \E n \in SensorNames : EnableSensor(n)

(***************************************************************************)
(* MatrixWatcher: the anomaly path                                         *)
(* on_data runs on the thread that publishes the DATA event; for every     *)
(* anomaly process returns it writes the anomaly record and hands          *)
(* _handle_anomaly to the event loop, which runs the coroutines one after   *)
(* the other. check_events and process themselves are CheckEvents and      *)
(* Process above; the anomaly returned is the input here. The smart        *)
(* analyzer, the notifications and the broadcast that follow               *)
(* record_condition change no state of the components modelled.            *)
(***************************************************************************)
WatcherSources == {1, 2}

\* the body of "for anomaly in anomalies" of on_data, for one anomaly
OnDataAnomaly(source, lag, outcomes) ==
    /\ watcher_log.returned < MaxReturned
    /\ Len(appended) < MaxWritten
    /\ write_record([has_timestamp |-> TRUE, has_source |-> TRUE], outcomes)
    /\ loop_queue' =
           IF store_last'.ok /\ telegram
           THEN Append(loop_queue, [sensor_source |-> source, timestamp |-> now - lag])
           ELSE loop_queue
    /\ watcher_log' = [watcher_log EXCEPT !.returned = @ + 1]
    /\ UNCHANGED <<trackerThreadVars, calibVars, flushVars, nestVars>>
    /\ UNCHANGED <<now, telegram, trackerVars, schedVars, busVars, clusterVars, indexVars,
                   detectorVars, threadVars, sensorVars, healthVars>>

\* MatrixWatcher._handle_anomaly, up to record_condition
HandleAnomaly(tie_up) ==
    /\ loop_queue # <<>>
    /\ loop_queue' = Tail(loop_queue)
    /\ LET anomaly == Head(loop_queue)
           res == add_anomaly(anomaly)
           cluster == res.cluster
           st == calculate([history |-> index_history, baseline_cache |-> baseline_cache,
                            last_baseline_update |-> last_baseline_update],
                           [i \in DOMAIN cluster.anomalies |->
                               [sensor_source |-> cluster.anomalies[i].sensor_source,
                                severity |-> NoneOpt, z_score |-> 4]],
                           now, tie_up)
           condition == [level |-> cluster.level,
                         sources |-> [i \in DOMAIN cluster.anomalies |->
                                         cluster.anomalies[i].sensor_source]]
       IN IF ~telegram
          THEN UNCHANGED <<recent_anomalies, precursor_candidates, cluster_last, sources_seen,
                           added, index_history, baseline_cache, last_baseline_update,
                           index_calls, recent_conditions, patterns, cond_serial, watcher_log>>
          ELSE /\ recent_anomalies' = res.recent_anomalies
               /\ precursor_candidates' = res.precursor_candidates
               /\ cluster_last' = [anomaly |-> anomaly, at |-> now, cluster |-> cluster]
               /\ sources_seen' = Max(sources_seen, anomaly.sensor_source)
               /\ added' = added + 1
               /\ IF cluster = NoCluster
                  THEN UNCHANGED <<index_history, baseline_cache, last_baseline_update,
                                   index_calls, recent_conditions, patterns, cond_serial,
                                   watcher_log>>
                  ELSE /\ index_history' = st.history
                       /\ baseline_cache' = st.baseline_cache
                       /\ last_baseline_update' = st.last_baseline_update
                       /\ index_calls' = index_calls + 1
                       /\ record_condition(condition, cluster.timestamp, CONDITIONS_MAXLEN)
                       /\ watcher_log' = [watcher_log EXCEPT !.clusters = @ + 1]
    /\ UNCHANGED <<trackerThreadVars, calibVars, flushVars, nestVars>>
    /\ UNCHANGED <<now, telegram, tracker_ticks, credit, replayed, scenario_log, tracker_disk,
                   cluster_ticks, index_ticks>>
    /\ UNCHANGED <<schedVars, busVars, storeVars, detectorVars, threadVars, sensorVars,
                   healthVars>>

WatcherInit ==
    /\ loop_queue = <<>>
    /\ watcher_log = [returned |-> 0, clusters |-> 0]

WatcherNext ==
    \/ \E source \in WatcherSources, lag \in AnomalyLags, outcomes \in {<<>>, AllFail} :
           OnDataAnomaly(source, lag, outcomes)
    \/ \E tie_up \in BOOLEAN : HandleAnomaly(tie_up)
    \/ \E d \in ClusterTickSteps : ClusterTick(d)

(***************************************************************************)
(* Pattern tracker called from two threads                                 *)
(* record_condition runs on the event-loop thread (_handle_anomaly),       *)
(* check_events on the thread that delivers the DATA event.  The tracker   *)
(* takes no lock, so the interpreter may switch threads between any two    *)
(* attribute reads or writes; a step below is one such read or write, or a *)
(* run of them that touches only what the other call never writes.         *)
(***************************************************************************)
notTrackerThreadsVars == <<schedVars, busVars, clusterVars, indexVars, storeVars, detectorVars,
                           threadVars, sensorVars, healthVars, watcherVars, calibVars, flushVars, nestVars>>

IdleCall == [pc |-> "idle", key |-> <<>>, j |-> 0, i |-> 0, it_state |-> 0,
             event_type |-> None, item_id |-> 0, prob |-> <<0, 1>>]

ThreadsIdle == tracker_threads.rec.pc = "idle" /\ tracker_threads.mat.pc = "idle"

\* the state both calls start from, kept for the comparison with the serial orders
PreState ==
    IF tracker_threads.pre = NoneOpt
    THEN Some([conds |-> recent_conditions, pats |-> patterns,
               credit |-> credit, replayed |-> replayed])
    ELSE tracker_threads.pre

\* record_condition, to the end of self._recent_conditions.append(...)
RecBegin(c, lag) ==
    /\ tracker_threads.rec.pc = "idle"
    /\ cond_serial < MaxRecorded
    /\ LET condition == [level |-> c.level, sources |-> c.sources, timestamp |-> now - lag]
           item == [condition |-> condition, timestamp |-> condition.timestamp,
                    matched_events |-> <<>>, id |-> cond_serial + 1]
       IN /\ recent_conditions' = DequeAppend(recent_conditions, item, RecentConditionsMaxLen)
          /\ cond_serial' = cond_serial + 1
          /\ tracker_threads' =
                 [tracker_threads EXCEPT
                      !.rec = [IdleCall EXCEPT !.pc = "count", !.key = to_key(condition),
                                               !.j = 1],
                      !.dq_state = @ + 1,
                      !.pre = PreState,
                      !.rec_arg = Some(item)]
    /\ UNCHANGED <<now, patterns, tracker_ticks, credit, replayed, scenario_log, tracker_disk>>
    /\ UNCHANGED notTrackerThreadsVars

\* record_condition: the pattern of the next catalog entry is created if it is
\* missing and its condition_count incremented
RecCount ==
    /\ tracker_threads.rec.pc = "count"
    /\ LET k  == <<tracker_threads.rec.key, EventCatalog[tracker_threads.rec.j]>>
           p0 == IF k \in DOMAIN patterns THEN patterns[k] ELSE NewPattern
           p1 == [p0 EXCEPT !.condition_count = @ + 1]
       IN patterns' = [x \in (DOMAIN patterns) \cup {k} |-> IF x = k THEN p1 ELSE patterns[x]]
    /\ tracker_threads' = [tracker_threads EXCEPT !.rec.pc = "prob_read"]
    /\ UNCHANGED <<now, recent_conditions, tracker_ticks, cond_serial, credit, replayed,
                   scenario_log, tracker_disk>>
    /\ UNCHANGED notTrackerThreadsVars

\* update_probability called by record_condition: the two counts are read and
\* the quotient computed
RecProbRead ==
    /\ tracker_threads.rec.pc = "prob_read"
    /\ LET k == <<tracker_threads.rec.key, EventCatalog[tracker_threads.rec.j]>>
       IN tracker_threads' =
              [tracker_threads EXCEPT
                   !.rec.pc = "prob_write",
                   !.rec.prob = update_probability(patterns[k]).actual_probability]
    /\ UNCHANGED <<now, recent_conditions, patterns, tracker_ticks, cond_serial, credit,
                   replayed, scenario_log, tracker_disk>>
    /\ UNCHANGED notTrackerThreadsVars

\* update_probability called by record_condition: self.actual_probability is
\* stored; the loop goes to the next catalog entry or the call returns
RecProbWrite ==
    /\ tracker_threads.rec.pc = "prob_write"
    /\ LET k == <<tracker_threads.rec.key, EventCatalog[tracker_threads.rec.j]>>
       IN patterns' = [patterns EXCEPT ![k].actual_probability = tracker_threads.rec.prob]
    /\ tracker_threads' =
           [tracker_threads EXCEPT
                !.rec.j = @ + 1,
                !.rec.pc = IF tracker_threads.rec.j + 1 > Len(EventCatalog)
                           THEN "done" ELSE "count"]
    /\ UNCHANGED <<now, recent_conditions, tracker_ticks, cond_serial, credit, replayed,
                   scenario_log, tracker_disk>>
    /\ UNCHANGED notTrackerThreadsVars

\* check_events for a reading that fires one event type, up to the creation of
\* the iterator of `for item in self._recent_conditions`
MatBegin(et) ==
    /\ tracker_threads.mat.pc = "idle"
    /\ tracker_threads' =
           [tracker_threads EXCEPT
                !.mat = [IdleCall EXCEPT !.pc = "iter", !.event_type = et, !.i = 1,
                                         !.it_state = tracker_threads.dq_state],
                !.pre = PreState,
                !.mat_arg = Some([timestamp |-> now, event_type |-> et, location |-> None])]
    /\ UNCHANGED <<now, recent_conditions, patterns, tracker_ticks, cond_serial, credit,
                   replayed, scenario_log, tracker_disk>>
    /\ UNCHANGED notTrackerThreadsVars

\* _match_event_with_conditions: the iterator yields the next item (or raises
\* RuntimeError when the deque was mutated since the iterator was made), and
\* for a matching item the counts and timing values of the pattern are updated
MatIter ==
    /\ tracker_threads.mat.pc = "iter"
    /\ LET m == tracker_threads.mat
           event == Get(tracker_threads.mat_arg)
       IN IF m.it_state # tracker_threads.dq_state
          THEN /\ tracker_threads' = [tracker_threads EXCEPT !.mat.pc = "done",
                                                              !.failed = TRUE]
               /\ UNCHANGED <<patterns, credit, replayed>>
          ELSE IF m.i > Len(recent_conditions)
          THEN /\ tracker_threads' = [tracker_threads EXCEPT !.mat.pc = "done"]
               /\ UNCHANGED <<patterns, credit, replayed>>
          ELSE LET item == recent_conditions[m.i]
                   time_diff == event.timestamp - item.condition.timestamp
                   key == <<to_key(item.condition), event.event_type>>
                   in_window == 0 < time_diff /\ time_diff < LOOKBACK_WINDOW_HOURS * 3600
                   hit == /\ in_window
                          /\ ~AlreadyMatched(item, event.event_type)
                          /\ key \in DOMAIN patterns
               IN IF hit
                  THEN /\ patterns' =
                              [patterns EXCEPT ![key] =
                                   [MatchPattern(@, event, time_diff) EXCEPT
                                        !.actual_probability = patterns[key].actual_probability]]
                       /\ credit' = [credit EXCEPT ![<<item.id, event.event_type>>] = @ + 1]
                       /\ UNCHANGED replayed
                       /\ tracker_threads' =
                              [tracker_threads EXCEPT !.mat.pc = "prob_read",
                                                      !.mat.key = key,
                                                      !.mat.item_id = item.id]
                  ELSE /\ replayed' = (replayed \/ (in_window
                                           /\ AlreadyMatched(item, event.event_type)))
                       /\ UNCHANGED <<patterns, credit>>
                       /\ tracker_threads' = [tracker_threads EXCEPT !.mat.i = @ + 1]
    /\ UNCHANGED <<now, recent_conditions, tracker_ticks, cond_serial, scenario_log,
                   tracker_disk>>
    /\ UNCHANGED notTrackerThreadsVars

\* update_probability called by the match: the two counts are read and the
\* quotient computed
MatProbRead ==
    /\ tracker_threads.mat.pc = "prob_read"
    /\ tracker_threads' =
           [tracker_threads EXCEPT
                !.mat.pc = "prob_write",
                !.mat.prob = update_probability(patterns[tracker_threads.mat.key]).actual_probability]
    /\ UNCHANGED <<now, recent_conditions, patterns, tracker_ticks, cond_serial, credit,
                   replayed, scenario_log, tracker_disk>>
    /\ UNCHANGED notTrackerThreadsVars

\* update_probability called by the match: self.actual_probability is stored,
\* then item["matched_events"].append(event.event_type) on the item the
\* iterator yielded, whether or not the deque still holds it
MatProbWrite ==
    /\ tracker_threads.mat.pc = "prob_write"
    /\ patterns' = [patterns EXCEPT ![tracker_threads.mat.key].actual_probability =
                                         tracker_threads.mat.prob]
    /\ recent_conditions' =
           [n \in DOMAIN recent_conditions |->
                IF recent_conditions[n].id = tracker_threads.mat.item_id
                THEN [recent_conditions[n] EXCEPT
                          !.matched_events = Append(@, tracker_threads.mat.event_type)]
                ELSE recent_conditions[n]]
    /\ tracker_threads' = [tracker_threads EXCEPT !.mat.pc = "iter", !.mat.i = @ + 1]
    /\ UNCHANGED <<now, tracker_ticks, cond_serial, credit, replayed, scenario_log,
                   tracker_disk>>
    /\ UNCHANGED notTrackerThreadsVars

\* the two calls in the order record_condition, check_events, from the state
\* both started from
SerialRecordThenMatch ==
    LET pre  == Get(tracker_threads.pre)
        item == Get(tracker_threads.rec_arg)
        st   == MatchFrom([conds |-> DequeAppend(pre.conds, item, RecentConditionsMaxLen),
                           pats |-> RecordInCatalog(pre.pats, to_key(item.condition), 1),
                           credit |-> pre.credit, replayed |-> pre.replayed],
                          Get(tracker_threads.mat_arg), 1)
    IN <<st.conds, st.pats>>

\* the two calls in the order check_events, record_condition
SerialMatchThenRecord ==
    LET pre  == Get(tracker_threads.pre)
        item == Get(tracker_threads.rec_arg)
        st   == MatchFrom(pre, Get(tracker_threads.mat_arg), 1)
    IN <<DequeAppend(st.conds, item, RecentConditionsMaxLen),
         RecordInCatalog(st.pats, to_key(item.condition), 1)>>

TrackerThreadsInit ==
    tracker_threads = [rec |-> IdleCall, mat |-> IdleCall, dq_state |-> 0,
                       pre |-> NoneOpt, rec_arg |-> NoneOpt, mat_arg |-> NoneOpt,
                       failed |-> FALSE]

\* conditions are recorded and the clock advances while no call is under way;
\* then one record_condition and one check_events run, each on its thread
TrackerThreadsNext ==
    \/ \E c \in ConditionInputs, lag \in ConditionLags :
           /\ ThreadsIdle
           /\ RecordCondition(c, lag)
           /\ UNCHANGED <<scenario_log, tracker_disk>>
    \/ \E d \in TrackerTickSteps :
           /\ ThreadsIdle
           /\ TrackerTick(d)
           /\ UNCHANGED <<scenario_log, tracker_disk>>
    \/ \E c \in ConditionInputs, lag \in ConditionLags : RecBegin(c, lag)
    \/ RecCount
    \/ RecProbRead
    \/ RecProbWrite
    \/ \E et \in EventTypes : MatBegin(et)
    \/ MatIter
    \/ MatProbRead
    \/ MatProbWrite

(***************************************************************************)
(* Auto-calibrator                                                         *)
(* Threshold values and percentiles are in hundredths. The checks logged   *)
(* for a threshold enter through what analyze_threshold computes of them:  *)
(* their number, the number that triggered, three percentiles and the      *)
(* threshold value of the first one.                                       *)
(***************************************************************************)
notCalibVars == <<trackerVars, schedVars, busVars, clusterVars, indexVars, storeVars,
                  detectorVars, threadVars, sensorVars, healthVars, watcherVars,
                  trackerThreadVars, flushVars, nestVars>>

DAY == 86400
\* min_days of AutoCalibrator, and the 30 of get_stats
MIN_DAYS == 30
READY_DAYS == 30
MIN_OBSERVATIONS == 1000

\* threshold names, cut where the tests of the calibrator look: at each "."
\* and after the word that follows it
QRNG_MIN == <<"quantum_rng", ".", "randomness_score", ".", "min">>
EQ_ABOVE == <<"earthquake", ".", "max", "_magnitude", ".", "trigger_above">>
BTC_CHANGE == <<"crypto", ".", "BTCUSDT", ".", "price", ".", "change_pct">>

\* priority_thresholds, the names of the model that are in it
priority_thresholds == <<QRNG_MIN, EQ_ABOVE, BTC_CHANGE>>
ThresholdNames == {priority_thresholds[i] : i \in DOMAIN priority_thresholds}

\* what analyze_threshold returns for one threshold, or that the calibration
\* of the threshold raises
Analysis(raises, total_checks, triggered_count) ==
    [raises |-> raises, total_checks |-> total_checks, triggered_count |-> triggered_count,
     p90 |-> 80, p95 |-> 85, p99 |-> 70, current_threshold |-> 95]

AnalysisInputs ==
    { Analysis(TRUE, 5000, 3750),
      Analysis(FALSE, 1000, 750),
      Analysis(FALSE, 2000, 1500),
      Analysis(FALSE, 5000, 3750),
      Analysis(FALSE, 5000, 225) }

\* clock advances explored by the calibrator, in seconds
CalibTickSteps == {3600, DAY, MIN_DAYS * DAY}

\* "." + word in threshold_name
InName(word, threshold_name) ==
    \E i \in 1..(Len(threshold_name) - 1) :
        threshold_name[i] = "." /\ threshold_name[i + 1] = word

\* trigger_rate > target * k / 2 for target 0.02, i.e. trigger_rate > k / 100
RateAbove(analysis, k) == analysis.triggered_count * 100 > k * analysis.total_checks
\* trigger_rate < target * 0.5
RateLow(analysis) == analysis.triggered_count * 100 < analysis.total_checks

\* AutoCalibrator._calculate_optimal_threshold: the new value, or nothing
_calculate_optimal_threshold(threshold_name, analysis) ==
    IF InName("min", threshold_name) \/ InName("max", threshold_name)
    THEN IF RateAbove(analysis, 4)
         THEN IF RateAbove(analysis, 10) THEN Some(analysis.p90) ELSE Some(analysis.p95)
         ELSE IF RateLow(analysis) THEN Some(analysis.p99)
         ELSE NoneOpt
    ELSE IF InName("trigger_above", threshold_name) \/ InName("change_pct", threshold_name)
    THEN IF RateAbove(analysis, 4) THEN Some(analysis.p95)
         ELSE IF RateLow(analysis) THEN Some(analysis.p90)
         ELSE NoneOpt
    ELSE Some(analysis.p95)

\* mutant: every recommendation is taken as certain
_determine_confidence_high(analysis) == "high"

\* AutoCalibrator._determine_confidence
_determine_confidence(analysis) ==
    IF /\ analysis.total_checks >= 5000
       /\ \/ analysis.triggered_count * 100 > 5 * analysis.total_checks
          \/ analysis.triggered_count * 1000 < 5 * analysis.total_checks
    THEN "high"
    ELSE IF analysis.total_checks >= 2000 THEN "medium"
    ELSE "low"

\* AutoCalibrator._calibrate_threshold: a recommendation, or nothing
_calibrate_threshold(threshold_name, analysis) ==
    IF analysis.total_checks < MIN_OBSERVATIONS THEN NoneOpt
    ELSE IF _calculate_optimal_threshold(threshold_name, analysis) = NoneOpt THEN NoneOpt
    ELSE Some([threshold_name |-> threshold_name,
               current_value |-> analysis.current_threshold,
               recommended_value |-> Get(_calculate_optimal_threshold(threshold_name, analysis)),
               confidence |-> _determine_confidence(analysis)])

\* AutoCalibrator._apply_calibration on the content of calibrated_thresholds.json
_apply_calibration(calibrated, recommendation, at) ==
    [calibrated EXCEPT ![recommendation.threshold_name] =
         Some([value |-> recommendation.recommended_value,
               applied_at |-> at,
               previous_value |-> recommendation.current_value,
               confidence |-> recommendation.confidence])]

\* the loop of _perform_calibration over the thresholds, from the i-th on;
\* st = [recommendations, auto_applied, calibrated]
RECURSIVE PerformFrom(_, _, _, _, _)
PerformFrom(st, analyses, auto_apply, at, i) ==
    IF i > Len(priority_thresholds) THEN st
    ELSE LET name == priority_thresholds[i]
             rec  == _calibrate_threshold(name, analyses[name])
             st1  == IF analyses[name].raises \/ rec = NoneOpt THEN st
                     ELSE IF auto_apply /\ Get(rec).confidence = "high"
                     THEN [recommendations |-> Append(st.recommendations, Get(rec)),
                           auto_applied |-> Append(st.auto_applied, name),
                           calibrated |-> _apply_calibration(st.calibrated, Get(rec), at)]
                     ELSE [st EXCEPT !.recommendations = Append(@, Get(rec))]
         IN PerformFrom(st1, analyses, auto_apply, at, i + 1)

\* AutoCalibrator._perform_calibration
_perform_calibration(analyses, auto_apply, calibrated, at) ==
    PerformFrom([recommendations |-> <<>>, auto_applied |-> <<>>, calibrated |-> calibrated],
                analyses, auto_apply, at, 1)

\* now - self._last_calibration_check < 86400
CheckedRecently(current_time, last_check) == current_time - last_check < DAY

\* mutant: the wait since the last calibration is dropped
CalibratedRecently_never(current_time, history) == FALSE

\* days_since_last < self.min_days, on a history that is not empty
CalibratedRecently(current_time, history) ==
    /\ history # <<>>
    /\ current_time - history[Len(history)].timestamp < MIN_DAYS * DAY

\* CalibrationTracker.get_stats()["ready_for_calibration"]
ready_for_calibration(current_time, start_time) ==
    current_time - start_time >= READY_DAYS * DAY

NoCall == [status |-> "-", analyses |-> NoneOpt, recommendations |-> <<>>,
           auto_applied |-> <<>>]

\* AutoCalibrator.check_and_calibrate, on the checks logged so far
CheckAndCalibrate(analyses) ==
    /\ calib_log.calls < MaxCalibCalls
    /\ IF CheckedRecently(now, calibrator.last_calibration_check)
       THEN /\ UNCHANGED <<calibrator, calib_disk>>
            /\ calib_log' = [calib_log EXCEPT !.calls = @ + 1,
                                              !.last = [NoCall EXCEPT !.status = "skipped"]]
       ELSE IF CalibratedRecently(now, calibrator.history)
       THEN /\ calibrator' = [calibrator EXCEPT !.last_calibration_check = now]
            /\ UNCHANGED calib_disk
            /\ calib_log' = [calib_log EXCEPT !.calls = @ + 1,
                                              !.last = [NoCall EXCEPT !.status = "waiting"]]
       ELSE IF ~ready_for_calibration(now, calib_start)
       THEN /\ calibrator' = [calibrator EXCEPT !.last_calibration_check = now]
            /\ UNCHANGED calib_disk
            /\ calib_log' = [calib_log EXCEPT !.calls = @ + 1,
                                              !.last = [NoCall EXCEPT !.status = "not_ready"]]
       ELSE LET results == _perform_calibration(analyses, calibrator.auto_apply,
                                                calib_disk.thresholds, now)
                history == Append(calibrator.history, [timestamp |-> now])
            IN /\ calibrator' = [calibrator EXCEPT !.last_calibration_check = now,
                                                   !.history = history]
               /\ calib_disk' = [history |-> history,
                                 thresholds |-> results.calibrated,
                                 reports |-> calib_disk.reports + 1]
               /\ calib_log' = [calib_log EXCEPT
                                    !.calls = @ + 1,
                                    !.performed = Append(@, now),
                                    !.last = [status |-> "completed",
                                              analyses |-> Some(analyses),
                                              recommendations |-> results.recommendations,
                                              auto_applied |-> results.auto_applied]]
    /\ UNCHANGED <<now, calib_start>>
    /\ UNCHANGED notCalibVars

\* the process ends and AutoCalibrator is constructed again: _load_history
CalibRestart ==
    /\ calib_log.restarts < MaxCalibRestarts
    /\ calibrator' = [calibrator EXCEPT !.last_calibration_check = 0,
                                        !.history = calib_disk.history]
    /\ calib_log' = [calib_log EXCEPT !.restarts = @ + 1, !.last = NoCall]
    /\ UNCHANGED <<now, calib_disk, calib_start>>
    /\ UNCHANGED notCalibVars

\* the wall clock advances between two calls
CalibTick(d) ==
    /\ calib_log.ticks < MaxCalibTicks
    /\ now' = now + d
    /\ calib_log' = [calib_log EXCEPT !.ticks = @ + 1, !.last = NoCall]
    /\ UNCHANGED <<calibrator, calib_disk, calib_start>>
    /\ UNCHANGED notCalibVars

\* a fresh installation: no history, no calibrated thresholds, the tracker's
\* start time just written
NewCalibrator(auto_apply) ==
    [last_calibration_check |-> 0, history |-> <<>>, auto_apply |-> auto_apply]

CalibInit ==
    /\ calib_disk = [history |-> <<>>, thresholds |-> [n \in ThresholdNames |-> NoneOpt],
                     reports |-> 0]
    /\ calib_start = StartTime
    /\ calib_log = [calls |-> 0, ticks |-> 0, restarts |-> 0, performed |-> <<>>,
                    last |-> NoCall]

CalibNext ==
    \/ \E analyses \in [ThresholdNames -> AnalysisInputs] : CheckAndCalibrate(analyses)
    \/ CalibRestart
    \/ \E d \in CalibTickSteps : CalibTick(d)

TrackerInit ==
    /\ recent_conditions = <<>>
    /\ patterns = <<>>
    /\ tracker_ticks = 0
    /\ cond_serial = 0
    /\ credit = [k \in (1..(Max(MaxRecorded, ScenarioConditions) + 1)) \X EventTypes |-> 0]
    /\ replayed = FALSE
    /\ scenario_log = <<NoFiring, NoFiring>>
    /\ tracker_disk = [files |-> NoneOpt, saved |-> NoneOpt, restarts |-> 0, op |-> "-"]

ComponentsInit ==
    /\ TrackerInit
    /\ SchedInit
    /\ BusInit
    /\ ClusterInit
    /\ IndexInit
    /\ StoreInit
    /\ DetectorInit
    /\ ThreadsInit
    /\ SensorInit
    /\ HealthInit
    /\ WatcherInit
    /\ TrackerThreadsInit
    /\ CalibInit
    /\ FlushInit
    /\ NestInit

Init ==
    /\ now = StartTime
    /\ telegram = TRUE
    /\ calibrator = NewCalibrator(TRUE)
    /\ ComponentsInit

\* the bus with one of the subscription tables
NestedTableInit ==
    /\ now = StartTime
    /\ telegram = TRUE
    /\ calibrator = NewCalibrator(TRUE)
    /\ TrackerInit /\ SchedInit /\ BusInit /\ ClusterInit /\ IndexInit /\ StoreInit
    /\ DetectorInit /\ ThreadsInit /\ SensorInit /\ HealthInit /\ WatcherInit
    /\ TrackerThreadsInit /\ CalibInit /\ FlushInit
    /\ nest \in {NewNest(subs) : subs \in NestedTables}

\* the scenario counts its seconds from 0
ScenarioInit ==
    /\ now = 0
    /\ telegram = TRUE
    /\ calibrator = NewCalibrator(TRUE)
    /\ ComponentsInit

\* the watcher with or without the Telegram bot configured
WatcherConfigInit ==
    /\ now = StartTime
    /\ telegram \in BOOLEAN
    /\ calibrator = NewCalibrator(TRUE)
    /\ ComponentsInit

\* the calibrator with auto-apply on, as main.py constructs it, or off
CalibConfigInit ==
    /\ now = StartTime
    /\ telegram = TRUE
    /\ calibrator \in {NewCalibrator(a) : a \in BOOLEAN}
    /\ ComponentsInit

TrackerNext ==
    \/ \E c \in ConditionInputs, lag \in ConditionLags :
           RecordCondition(c, lag) /\ UNCHANGED <<scenario_log, tracker_disk>>
    \/ \E fired \in SUBSET EventTypes, has_loc \in BOOLEAN :
           CheckEvents(fired, has_loc) /\ UNCHANGED <<scenario_log, tracker_disk>>
    \/ \E d \in TrackerTickSteps : TrackerTick(d) /\ UNCHANGED <<scenario_log, tracker_disk>>

\* the tracker between saves and restarts of the process
RestartNext ==
    \/ \E lag \in ConditionLags :
           /\ RecordCondition([level |-> 2, sources |-> <<1, 2>>], lag)
           /\ UNCHANGED scenario_log
           /\ tracker_disk' = [tracker_disk EXCEPT !.op = "-"]
    \/ \E e \in EventTypes :
           /\ CheckEvents({e}, TRUE)
           /\ UNCHANGED scenario_log
           /\ tracker_disk' = [tracker_disk EXCEPT !.op = "-"]
    \/ \E d \in TrackerTickSteps :
           /\ TrackerTick(d)
           /\ UNCHANGED scenario_log
           /\ tracker_disk' = [tracker_disk EXCEPT !.op = "-"]
    \/ Save
    \/ Restart

ScenarioNext ==
    \/ ScenarioRecord
    \/ \E t \in ScenarioTimes : ScenarioClock(t)
    \/ ScenarioFire

SpecTracker == Init /\ [][TrackerNext]_vars

SpecScenario == ScenarioInit /\ [][ScenarioNext]_vars

SpecRestart == Init /\ [][RestartNext]_vars

\* the tracker between saves, restarts and a crash inside a save
CrashNext ==
    \/ /\ RecordCondition([level |-> 2, sources |-> <<1, 2>>], 100)
       /\ UNCHANGED scenario_log
       /\ tracker_disk' = [tracker_disk EXCEPT !.op = "-"]
    \/ /\ CheckEvents({"btc_pump_1h"}, FALSE)
       /\ UNCHANGED scenario_log
       /\ tracker_disk' = [tracker_disk EXCEPT !.op = "-"]
    \/ \E d \in TrackerTickSteps :
           /\ TrackerTick(d)
           /\ UNCHANGED scenario_log
           /\ tracker_disk' = [tracker_disk EXCEPT !.op = "-"]
    \/ Save
    \/ Restart
    \/ CrashInSave

SpecCrash == Init /\ [][CrashNext]_vars

SpecTrackerThreads == Init /\ [][TrackerThreadsNext]_vars

SpecCalib == CalibConfigInit /\ [][CalibNext]_vars

\* analyses on both sides of every test of the calibrator: too few checks, a
\* trigger rate above 5 x target, between 2 x and 5 x, on target, and below
\* 0.5 x target
RateInputs ==
    { Analysis(FALSE, 500, 375),
      Analysis(FALSE, 5000, 3750),
      Analysis(FALSE, 5000, 225),
      Analysis(FALSE, 5000, 100),
      Analysis(FALSE, 5000, 20) }

CalibRatesNext ==
    \/ \E analyses \in [ThresholdNames -> RateInputs] : CheckAndCalibrate(analyses)
    \/ CalibRestart
    \/ \E d \in CalibTickSteps : CalibTick(d)

SpecCalibRates == CalibConfigInit /\ [][CalibRatesNext]_vars

SpecWatcher == WatcherConfigInit /\ [][WatcherNext]_vars

SpecSched == Init /\ [][SchedNext]_vars

SpecSchedOrder == Init /\ [][SchedOrderNext]_vars

SpecBus == Init /\ [][BusNext]_vars

SpecCluster == Init /\ [][ClusterNext]_vars

\* the cluster scenario: the clock starts at 1000 and advances by 10 seconds
ClusterScenarioInit ==
    /\ now = 1000
    /\ telegram = TRUE
    /\ calibrator = NewCalibrator(TRUE)
    /\ ComponentsInit

ClusterScenarioNext ==
    \/ \E source \in 1..MaxAdded, lag \in AnomalyLags : AddAnomaly(source, lag)
    \/ ClusterTick(10)

SpecClusterScenario == ClusterScenarioInit /\ [][ClusterScenarioNext]_vars

SpecIndex == Init /\ [][IndexNext]_vars

\* anomaly lists of index 0, 20 (140 of 700) and 60 (420 of 700)
BaselineLists ==
    { <<>>,
      << [sensor_source |-> "news", severity |-> Some("critical"), z_score |-> 0],
         [sensor_source |-> "crypto", severity |-> Some("medium"), z_score |-> 0],
         [sensor_source |-> "crypto", severity |-> NoneOpt, z_score |-> 1] >>,
      [i \in 1..6 |->
          [sensor_source |-> IF i = 6 THEN 5 ELSE i,
           severity |-> IF i < 5 THEN Some("critical") ELSE Some("low"),
           z_score |-> 0]] }

BaselineRuns == {1, BASELINE_MIN_SNAPSHOTS, 100}

IndexBaselineNext ==
    \/ \E l \in BaselineLists, n \in BaselineRuns, tie_up \in BOOLEAN : Calculate(l, n, tie_up)
    \/ \E d \in IndexTickSteps : IndexTick(d)

SpecIndexBaseline == Init /\ [][IndexBaselineNext]_vars

SpecStore == Init /\ [][StoreNext]_vars

\* the store on a file system that never fails, with flush called again and
\* again: the periodic flush of the application and the flush of every
\* read_records
StoreLiveNext ==
    \/ \E r \in RecordInputs : WriteRecord(r, <<>>)
    \/ Flush(<<>>)
    \/ NextDay

SpecStoreLive == Init /\ [][StoreLiveNext]_vars /\ WF_vars(Flush(<<>>))

SpecDetector == Init /\ [][DetectorNext]_vars

SpecBusThreads == Init /\ [][ThreadsNext]_vars

SpecBusFlush == Init /\ [][FlushNext]_vars

SpecNested == NestedTableInit /\ [][NestNext]_vars

SpecSensor == Init /\ [][SensorNext]_vars

SpecHealth == Init /\ [][HealthNext]_vars

\* C3: the callback registered under a task name is never entered while an
\* earlier invocation for that name has not returned
NoOverlapPerTaskName ==
    \A o1, o2 \in DOMAIN task_objs :
        ( /\ worker[o1].pc = "callback"
          /\ worker[o2].pc = "callback"
          /\ task_objs[o1].name = task_objs[o2].name ) => o1 = o2

\* C1: every pattern has 0 <= event_after_count <= condition_count, its
\* actual_probability lies in [0, 1], and actual_probability * condition_count
\* equals event_after_count
PatternCountsConsistent ==
    \A k \in DOMAIN patterns :
        LET p == patterns[k] IN
        /\ 0 <= p.event_after_count
        /\ p.event_after_count <= p.condition_count
        /\ p.actual_probability[2] > 0
        /\ 0 <= p.actual_probability[1]
        /\ p.actual_probability[1] <= p.actual_probability[2]
        /\ p.actual_probability[1] * p.condition_count
             = p.event_after_count * p.actual_probability[2]

\* a pattern whose condition was recorded more than once and followed by its event
PatternMatchedWitness ==
    \E k \in DOMAIN patterns :
        /\ patterns[k].condition_count >= 2
        /\ patterns[k].event_after_count >= 1
        /\ patterns[k].event_after_count < patterns[k].condition_count

\* C2: a stored condition instance raises event_after_count of its pattern
\* for one event type at most once, however often that event fires in its window
MatchedAtMostOncePerCondition ==
    \A k \in DOMAIN credit : credit[k] <= 1

\* an event type fired again for a condition instance that had already been
\* matched with it and was still inside the window
ReplayedEventWitness ==
    /\ replayed
    /\ \E k \in DOMAIN credit : credit[k] = 1

\* C4 as stated: totalDelivered + totalDropped <= totalPublished x subscriberCount
StatsWithinCurrentSubscribers ==
    get_stats.total_delivered + get_stats.total_dropped
        <= get_stats.total_published * get_stats.subscriber_count

\* C4 amended: totalDelivered + totalDropped <= totalPublished x (number of
\* subscriptions ever created), and the bound with the current subscriberCount
\* holds as long as no subscription has been removed
StatsWithinSubscriptionsCreated ==
    /\ get_stats.total_delivered + get_stats.total_dropped
           <= get_stats.total_published * subscribe_calls
    /\ ~removed_any =>
           get_stats.total_delivered + get_stats.total_dropped
               <= get_stats.total_published * get_stats.subscriber_count

\* deliveries and drops were counted, then a subscription was removed, and the
\* counters exceed the bound taken with the remaining subscribers
StatsAfterUnsubscribeWitness ==
    /\ removed_any
    /\ total_delivered > 0
    /\ total_dropped > 0
    /\ total_delivered + total_dropped > total_published * Len(subscriptions)

\* C9: publish invokes the callback of every current subscriber whose filter
\* accepts the event, in table order; a raising callback leaves the event at the
\* tail of that subscriber's backlog and does not stop the delivery; the result
\* counts exactly the callbacks that returned normally
PublishDeliversToAccepting ==
    bus_last.op = "publish" =>
        LET event == bus_last.arg
            accepting == SelectSeq(subscriptions, LAMBDA s : Accepts(s, event))
        IN /\ bus_last.invoked = [k \in DOMAIN accepting |-> accepting[k].id]
           /\ \A id \in bus_last.raised :
                  LET buffer == subscriptions[SubIndex(id)].buffer
                  IN buffer # <<>> /\ buffer[Len(buffer)] = event
           /\ bus_last.ret = Len(bus_last.invoked) - Cardinality(bus_last.raised)

\* a publish where the first subscriber's callback raised and a later
\* subscriber's callback was still invoked and returned normally
PublishAfterRaiseWitness ==
    /\ bus_last.op = "publish"
    /\ Len(bus_last.invoked) >= 2
    /\ bus_last.invoked[1] \in bus_last.raised
    /\ bus_last.invoked[2] \notin bus_last.raised
    /\ bus_last.ret >= 1

\* C10: no backlog is longer than its cap; a failed delivery arriving at a full
\* backlog removes the oldest queued event, appends the new one at the tail and
\* adds one to the subscriber's drop counter and one to totalDropped
BacklogOverflowDropsOldest ==
    [][ /\ \A i \in DOMAIN subscriptions' :
               Len(subscriptions'[i].buffer) <= subscriptions'[i].max_buffer_size
        /\ total_published' = total_published + 1 =>
               LET overflowing ==
                       { i \in DOMAIN subscriptions :
                             /\ subscriptions[i].id \in bus_last'.raised
                             /\ Len(subscriptions[i].buffer)
                                    >= subscriptions[i].max_buffer_size }
               IN /\ \A i \in overflowing :
                         /\ subscriptions'[i].buffer
                                = Append(Tail(subscriptions[i].buffer), bus_last'.arg)
                         /\ subscriptions'[i].dropped_count
                                = subscriptions[i].dropped_count + 1
                  /\ total_dropped' = total_dropped + Cardinality(overflowing)
      ]_vars

\* a failed delivery has just arrived at a full backlog
BacklogOverflowWitness ==
    /\ bus_last.op = "publish"
    /\ bus_last.dropped >= 1
    /\ \E i \in DOMAIN subscriptions :
           /\ subscriptions[i].id \in bus_last.raised
           /\ subscriptions[i].dropped_count >= 1
           /\ Len(subscriptions[i].buffer) = subscriptions[i].max_buffer_size
           /\ Len(subscriptions[i].buffer) >= 2

SnapshotStatusMatchesFields ==
    \A i \in DOMAIN index_history :
        LET snapshot == index_history[i]
        IN /\ 0 <= snapshot.index
           /\ snapshot.index <= 1000
           /\ snapshot.status = "normal"
                  <=> (snapshot.index < 400 /\ snapshot.baseline_ratio < 150)

\* C7: a read over the whole date range returns the records written to the
\* sensor each exactly once and in the order they were appended, also when the
\* writes were split over several flushes and over rotated files of one day
ReadReturnsAppendOrder ==
    ( /\ store_last.op = "read_records"
      /\ store_last.ok
      /\ store_last.start_date = 1
      /\ store_last.end_date = today )
        => store_last.result = appended

\* C8: a _check_rule call under a rule with only min_change_percent set yields
\* no anomaly when all samples of the parameter in its lookback window have the
\* same value, and none when the first sample in the window is 0; a parameter
\* matched by such rules only then gets no anomaly from the process call
NoChangeAnomalyOnFlatOrZeroWindow ==
    \A k \in DOMAIN det_last.calls :
        LET call == det_last.calls[k]
            window == CallWindow(det_history, call)
            flat_or_zero == AllEqual(window) \/ (window # <<>> /\ window[1].value = 0)
            only_pure == \A r \in DOMAIN det_rules :
                             _matches_pattern(call.param, det_rules[r].parameter_pattern)
                                 => PureChangeRule(det_rules[r])
        IN (PureChangeRule(det_rules[call.rule]) /\ flat_or_zero) =>
               /\ call.outcome # "anomaly"
               /\ only_pure =>
                      \A a \in DOMAIN det_last.anomalies :
                          det_last.anomalies[a].parameter # call.param

\* change rules have been checked on a window of equal non-zero samples that
\* follows a different older sample, and on a window starting with 0 for a
\* non-zero new value
FlatAndZeroWindowWitness ==
    /\ seen_equal_window
    /\ seen_zero_first

\* C11: flush_buffer of an existing subscription calls the callback on the
\* backlog's events from the oldest on, in queue order; every event whose
\* callback returned normally is removed and no other; it stops at the first
\* callback that raises, leaving that event and the later ones queued in their
\* order; it goes on to the end of the backlog otherwise; and it returns the
\* number of events delivered
FlushRedeliversInOrderUntilFailure ==
    [][ (bus_last'.op = "flush" /\ SubIndex(bus_last'.arg) # 0) =>
            LET i == SubIndex(bus_last'.arg)
                buffer == subscriptions[i].buffer
                invoked == bus_last'.invoked
                ret == bus_last'.ret
                failed == bus_last'.raised # {}
            IN /\ Len(invoked) <= Len(buffer)
               /\ \A j \in DOMAIN invoked : invoked[j] = buffer[j].n
               /\ bus_last'.raised \subseteq {invoked[j] : j \in DOMAIN invoked}
               /\ failed => bus_last'.raised = {invoked[Len(invoked)]}
               /\ ret = Len(invoked) - (IF failed THEN 1 ELSE 0)
               /\ ~failed => Len(invoked) = Len(buffer)
               /\ subscriptions'[i].id = bus_last'.arg
               /\ subscriptions'[i].buffer = SubSeq(buffer, ret + 1, Len(buffer))
      ]_vars

\* a flush has delivered the oldest event and stopped at the second, with the
\* failing event still at the head of the backlog
FlushStoppedAtFailureWitness ==
    /\ bus_last.op = "flush"
    /\ bus_last.ret >= 1
    /\ bus_last.raised # {}
    /\ SubIndex(bus_last.arg) # 0
    /\ subscriptions[SubIndex(bus_last.arg)].buffer # <<>>
    /\ subscriptions[SubIndex(bus_last.arg)].buffer[1].n \in bus_last.raised


\* C12: with subscribe, unsubscribe and publish issued from concurrent threads,
\* whenever no publish is in progress total_published is the number of publish
\* calls made and total_delivered is the number of callback invocations that
\* returned normally
CountersExactUnderThreads ==
    (\A t \in ThreadIds : threads[t].pc = "idle") =>
        /\ total_published = publish_calls
        /\ total_delivered = callbacks_returned

\* C13: once pause_task(name) has returned True, the callback of the task
\* registered under that name is not started until resume_task(name) is called
PausedTaskNotStarted ==
    [][ \A o \in DOMAIN worker :
            (worker[o].pc = "acquire" /\ worker'[o].pc = "callback") =>
                ~(\E n \in pause_pending :
                      TaskIndex(n) # 0 /\ tasks[TaskIndex(n)].obj = o)
      ]_vars

\* C14: when a callback ends, a raise adds one to the task's error_count and
\* consecutive_failures and a normal return adds one to run_count and sets
\* consecutive_failures to 0; either way the scheduler loop and its flags are
\* left as they were, the task is ready again once its interval has passed, and
\* no other task is touched
CallbackErrorCountedAndRescheduled ==
    [][ \A o \in DOMAIN worker :
            (worker[o].pc = "callback" /\ worker'[o].pc = "none"
                 /\ task_objs'[o] # DeadTask) =>
                LET t == task_objs[o]
                    t1 == task_objs'[o]
                IN /\ worker'[o].outcome \in {"raised", "returned"}
                   /\ worker'[o].outcome = "raised" =>
                          /\ t1.stats.error_count = t.stats.error_count + 1
                          /\ t1.stats.consecutive_failures = t.stats.consecutive_failures + 1
                          /\ t1.stats.run_count = t.stats.run_count
                   /\ worker'[o].outcome = "returned" =>
                          /\ t1.stats.run_count = t.stats.run_count + 1
                          /\ t1.stats.consecutive_failures = 0
                          /\ t1.stats.error_count = t.stats.error_count
                   /\ loop_pc' = loop_pc
                   /\ sched_running' = sched_running
                   /\ stop_event' = stop_event
                   /\ ready_tasks' = ready_tasks
                   /\ IsReady(t1, now + t.interval)
                   /\ t1.next_run = now + t.interval
                   /\ \A p \in DOMAIN task_objs \ {o} :
                          task_objs'[p] = task_objs[p] \/ task_objs'[p] = DeadTask
      ]_vars

\* a task whose first run raised has just completed a run normally
SuccessAfterFailureWitness ==
    \E o \in DOMAIN worker :
        /\ worker[o].pc = "none"
        /\ worker[o].outcome = "returned"
        /\ task_objs[o].stats.error_count = 1
        /\ task_objs[o].stats.run_count = 1
        /\ task_objs[o].stats.consecutive_failures = 0
        /\ loop_pc = "run"

\* C15: never more than max_concurrent callbacks are executing at once; a
\* dispatched task whose wait for a slot ends after the acquire timeout stops
\* without having run its callback, with its statistics unchanged, and is ready
\* again once its interval has passed
ConcurrencyCapAndSlotTimeout ==
    [][ /\ Cardinality({o \in DOMAIN worker' : worker'[o].pc = "callback"}) <= MaxConcurrent
        /\ \A o \in DOMAIN worker :
               (worker[o].pc = "acquire" /\ worker'[o].pc = "none"
                    /\ task_objs'[o] # DeadTask) =>
                   /\ worker'[o].outcome = "timeout"
                   /\ now >= worker[o].since + ACQUIRE_TIMEOUT
                   /\ task_objs'[o].stats = task_objs[o].stats
                   /\ IsReady(task_objs'[o], now + task_objs[o].interval)
                   /\ task_objs'[o].next_run = now + task_objs[o].interval
      ]_vars

\* a dispatched task has given up waiting while every slot was taken
SlotTimeoutWitness ==
    /\ Cardinality({o \in DOMAIN worker : worker[o].pc = "callback"}) = MaxConcurrent
    /\ \E o \in DOMAIN worker :
           /\ worker[o].outcome = "timeout"
           /\ task_objs[o] # DeadTask
           /\ task_objs[o].stats.run_count = 0
           /\ task_objs[o].stats.error_count = 0

\* C16: the ready list a scheduler pass computes holds exactly the registered
\* tasks that are due (not paused, not running, next run time reached), each
\* once, every high-priority task before every medium one before every low one
\* and tasks of equal priority in the order their names were registered; the
\* pass dispatches from the front of that list
DispatchByPriorityThenRegistration ==
    [][ LET rank(o) == CASE task_objs[o].priority = "high" -> 0
                         [] task_objs[o].priority = "medium" -> 1
                         [] OTHER -> 2
            pos(o) == CHOOSE i \in DOMAIN tasks : tasks[i].obj = o
            due == { tasks[i].obj : i \in { k \in DOMAIN tasks :
                         IsReady(task_objs[tasks[k].obj], now) } }
        IN /\ (ready_tasks = <<>> /\ ready_tasks' # <<>>) =>
                  /\ { ready_tasks'[i] : i \in DOMAIN ready_tasks' } = due
                  /\ Len(ready_tasks') = Cardinality(due)
                  /\ \A i, j \in DOMAIN ready_tasks' :
                         i < j =>
                             \/ rank(ready_tasks'[i]) < rank(ready_tasks'[j])
                             \/ /\ rank(ready_tasks'[i]) = rank(ready_tasks'[j])
                                /\ pos(ready_tasks'[i]) < pos(ready_tasks'[j])
           /\ (ready_tasks # <<>> /\ ready_tasks' # ready_tasks) =>
                  /\ ready_tasks' = Tail(ready_tasks)
                  /\ \A o \in DOMAIN worker :
                         (worker[o].pc = "none" /\ worker'[o].pc = "acquire") =>
                             o = Head(ready_tasks)
      ]_vars

\* a pass has found a high, a medium and two low tasks due, the low ones named
\* in the order b, a of their registration
ThreePrioritiesReadyWitness ==
    /\ Len(ready_tasks) = 3
    /\ task_objs[ready_tasks[1]].priority = "medium"
    /\ task_objs[ready_tasks[2]].priority = "low"
    /\ task_objs[ready_tasks[3]].priority = "low"
    /\ task_objs[ready_tasks[2]].name = "b"
    /\ task_objs[ready_tasks[3]].name = "a"

\* C17: once stop has cleared the running flag and the scheduler loop has
\* ended, so that stop has returned, no task callback is started
NoCallbackStartAfterStop ==
    [][ (~sched_running /\ stop_event /\ loop_pc = "exited") =>
            \A o \in DOMAIN worker :
                ~(worker[o].pc = "acquire" /\ worker'[o].pc = "callback")
      ]_vars

\* C18: a safe_collect call makes at most max_retries collect calls and none
\* after the first that returns; when one returns, the call publishes exactly one
\* event, a DATA event with the reading's source and every data field of the
\* reading, and returns the reading; when none returns, it publishes exactly one
\* event, an ERROR event, leaves the status ERROR and returns no reading
SafeCollectRetriesAndPublishesOnce ==
    sensor_last.op = "safe_collect" =>
        LET c == sensor_last
            first_ok == { k \in DOMAIN c.outcomes :
                              c.outcomes[k] /\ \A j \in 1..(k - 1) : ~c.outcomes[j] }
        IN /\ c.collects <= c.max_retries
           /\ Len(c.events) = 1
           /\ IF first_ok # {}
              THEN /\ c.collects \in first_ok
                   /\ c.ret = Some(c.reading)
                   /\ c.events[1].event_type = "data"
                   /\ c.events[1].source = c.reading.source
                   /\ \A i \in DOMAIN c.reading.data :
                          \E k \in DOMAIN c.events[1].payload :
                              /\ c.events[1].payload[k].value = c.reading.data[i].value
                              /\ c.events[1].payload[k].key
                                     \in {c.reading.data[i].key, "data_source"}
                   /\ \E k \in DOMAIN c.events[1].payload :
                          c.events[1].payload[k] = [key |-> "source", value |-> c.reading.source]
              ELSE /\ c.collects = c.max_retries
                   /\ c.ret = NoneOpt
                   /\ c.events[1].event_type = "error"
                   /\ c.events[1].source = c.name
                   /\ sensor_status = "error"

\* a call has succeeded on its third attempt after an earlier call had failed
\* on every attempt
SafeCollectThirdAttemptWitness ==
    /\ sensor_last.op = "safe_collect"
    /\ sensor_last.collects = 3
    /\ sensor_last.ret # NoneOpt
    /\ sensor_counts.error_count >= 3
    /\ sensor_status = "running"

\* C19: a sensor goes from enabled to disabled in exactly the record_failure
\* call that brings its failures since its last success or enable_sensor to the
\* failure threshold; on_sensor_disabled is called once in that call and in no
\* other; and a disabled sensor is enabled again only by enable_sensor
DisabledAtThresholdUntilEnabled ==
    [][ \A n \in SensorNames :
            LET was == sensors_health[n] # NoneOpt /\ Get(sensors_health[n]).disabled
                is == sensors_health'[n] # NoneOpt /\ Get(sensors_health'[n]).disabled
                reaches == /\ health_last'.op = "record_failure"
                           /\ health_last'.name = n
                           /\ health_ops' = health_ops + 1
                           /\ ~was
                           /\ streak'[n] = FAILURE_THRESHOLD
            IN /\ (~was /\ is) <=> reaches
               /\ disabled_fired'[n] = disabled_fired[n] + (IF reaches THEN 1 ELSE 0)
               /\ (was /\ ~is) => (health_last'.op = "enable_sensor" /\ health_last'.name = n)
      ]_vars

\* a disabled sensor has stayed disabled through a success and further
\* failures up to the threshold, with the callback made once
StaysDisabledWitness ==
    \E n \in SensorNames :
        /\ sensors_health[n] # NoneOpt
        /\ Get(sensors_health[n]).disabled
        /\ Get(sensors_health[n]).total_successes >= 1
        /\ Get(sensors_health[n]).total_failures >= 2 * FAILURE_THRESHOLD
        /\ Get(sensors_health[n]).consecutive_failures >= FAILURE_THRESHOLD
        /\ disabled_fired[n] = 1


\* C20: when a flush fails, write_batch was attempted at most MAX_RETRIES times
\* and no record is lost or duplicated: every record handed to write_record is
\* exactly once on disk or in the buffer, and the buffer is in append order.
FailedFlushRebuffersBatch ==
    LET OnDisk(id) ==
            Cardinality(UNION { { <<f.name, k>> : k \in { n \in DOMAIN f.records :
                                                             f.records[n].id = id } } :
                                f \in store_files })
        InBuffer(id) == Cardinality({ k \in DOMAIN store_buffer : store_buffer[k].id = id })
    IN (store_last.op = "flush" /\ ~store_last.ok) =>
           /\ store_last.attempts <= MAX_RETRIES
           /\ \A i \in DOMAIN appended : OnDisk(appended[i].id) + InBuffer(appended[i].id) = 1
           /\ \A i, j \in DOMAIN store_buffer :
                  i < j => store_buffer[i].id < store_buffer[j].id

\* C21 (as stated): write_record of a record that lacks timestamp or source
\* reports a storage error, and no such record is in any store file.
InvalidRecordRejectedByWrite ==
    LET Complete(r) == r.has_timestamp /\ r.has_source
    IN
    ( /\ store_last.op = "write_record"
      /\ ~Complete(appended[Len(appended)]) )
        => /\ ~store_last.ok
           /\ \A f \in store_files : \A k \in DOMAIN f.records :
                  Complete(f.records[k])

\* C21: no record that lacks timestamp or source is ever in a store file, and
\* every call that tries to write a batch holding such a record (the
\* write_record that fills the buffer, flush, read_records) reports a storage
\* error after MAX_RETRIES attempts, writes nothing and keeps the batch buffered.
InvalidRecordRejectedByFlush ==
    [][ LET Complete(r) == r.has_timestamp /\ r.has_source IN
        /\ \A f \in store_files' : \A k \in DOMAIN f.records :
               Complete(f.records[k])
        /\ ( /\ store_last' # store_last
              /\ store_last'.attempts > 0
              /\ \/ \E i \in DOMAIN store_buffer : ~Complete(store_buffer[i])
                 \/ /\ appended' # appended
                    /\ ~Complete(appended'[Len(appended')]) )
                => /\ ~store_last'.ok
                   /\ store_last'.attempts = MAX_RETRIES
                   /\ store_files' = store_files
                   /\ \E i \in DOMAIN store_buffer' : ~Complete(store_buffer'[i]) ]_vars

\* a flush of a batch with a record lacking its timestamp has raised after
\* valid records had been written to a file
InvalidRecordFlushRaisedWitness ==
    /\ store_last.op = "flush"
    /\ ~store_last.ok
    /\ store_last.attempts = MAX_RETRIES
    /\ store_files # {}
    /\ \E i \in DOMAIN store_buffer : ~store_buffer[i].has_timestamp

\* C22 (as stated): with all conditions recorded at 0, 100, ..., 900, a firing
\* of btc_pump_1h at t = 100 matches all of them: conditionCount = 10,
\* eventAfterCount = 10, actualProbability = 1.
FiringAtSecondTimestampMatchesAll ==
    LET k == <<to_key(ScenarioCondition), "btc_pump_1h">>
        last == scenario_log[2]
    IN (last.at = ScenarioStep /\ last.recorded = ScenarioConditions) =>
           /\ patterns[k].condition_count = ScenarioConditions
           /\ patterns[k].event_after_count = ScenarioConditions
           /\ patterns[k].actual_probability = <<1, 1>>

\* C22: with all conditions recorded at 0, 100, ..., 900, a firing of
\* btc_pump_1h later than every condition (t = 1000) leaves conditionCount = 10,
\* eventAfterCount = 10, actualProbability = 1, and a second identical firing
\* right after it changes no counter; a firing at t = 100 matches only the
\* condition recorded before it (eventAfterCount = 1, probability 1/10).
FiringAfterAllMatchesAll ==
    LET k == <<to_key(ScenarioCondition), "btc_pump_1h">>
        prev == scenario_log[1]
        last == scenario_log[2]
        after == ScenarioStep * ScenarioConditions
    IN /\ (last.at = after /\ last.recorded = ScenarioConditions) =>
              /\ patterns[k].condition_count = ScenarioConditions
              /\ patterns[k].event_after_count = ScenarioConditions
              /\ patterns[k].actual_probability = <<1, 1>>
       /\ ( /\ prev.at = after /\ prev.recorded = ScenarioConditions
            /\ last.at \in {after, after + 1} /\ last.recorded = ScenarioConditions ) =>
              /\ ~last.changed
              /\ patterns[k].event_after_count = ScenarioConditions
       /\ (last.at = ScenarioStep /\ last.recorded = ScenarioConditions) =>
              /\ patterns[k].condition_count = ScenarioConditions
              /\ patterns[k].event_after_count = 1
              /\ patterns[k].actual_probability = <<1, ScenarioConditions>>

\* the event fired after all conditions and fired again one second later
SecondFiringAfterAllWitness ==
    /\ scenario_log[1] = [at |-> ScenarioStep * ScenarioConditions,
                          recorded |-> ScenarioConditions, changed |-> TRUE]
    /\ scenario_log[2].at = ScenarioStep * ScenarioConditions + 1
    /\ scenario_log[2].recorded = ScenarioConditions

\* C23: two conditions recorded by the pipeline with the same level and the
\* same set of distinct sources have the same key.
ConditionKeyBySourceSet ==
    \A i, j \in DOMAIN recent_conditions :
        LET ci == recent_conditions[i].condition
            cj == recent_conditions[j].condition
        IN ( /\ ci.level = cj.level
             /\ {ci.sources[k] : k \in DOMAIN ci.sources}
                    = {cj.sources[k] : k \in DOMAIN cj.sources} )
               => to_key(ci) = to_key(cj)

\* C27: once the event loop has run what on_data handed to it, every anomaly
\* the detector returned has been passed to the cluster detector, and every
\* cluster emitted has yielded an index snapshot and a recorded condition,
\* with or without a notification channel.
EveryAnomalyReachesTracker ==
    loop_queue = <<>> =>
        /\ added = watcher_log.returned
        /\ Len(index_history) = watcher_log.clusters
        /\ cond_serial = watcher_log.clusters

\* C24: after a save and a load, every pattern has the counters and timing
\* values it had at the save (an unset min_time_to_event going through null),
\* the deque holds the saved conditions younger than 72h with their matched
\* events, and no condition instance is counted twice for one event type.
SaveLoadRestoresTracker ==
    /\ (tracker_disk.op = "load" /\ tracker_disk.saved # NoneOpt) =>
           LET saved == Get(tracker_disk.saved)
           IN /\ DOMAIN patterns = DOMAIN saved.patterns
              /\ \A k \in DOMAIN patterns :
                     /\ patterns[k].condition_count = saved.patterns[k].condition_count
                     /\ patterns[k].event_after_count = saved.patterns[k].event_after_count
                     /\ patterns[k].actual_probability = saved.patterns[k].actual_probability
                     /\ patterns[k].avg_time_to_event = saved.patterns[k].avg_time_to_event
                     /\ patterns[k].min_time_to_event = saved.patterns[k].min_time_to_event
                     /\ patterns[k].max_time_to_event = saved.patterns[k].max_time_to_event
              /\ recent_conditions =
                     SelectSeq(saved.recent_conditions,
                               LAMBDA item : now - item.condition.timestamp
                                                 < LOOKBACK_WINDOW_HOURS * 3600)
    /\ \A k \in DOMAIN credit : credit[k] <= 1

\* after a load that kept one matched condition and dropped an older one, with
\* one pattern never matched, the event has fired again for the restored condition
MatchedConditionRestoredWitness ==
    /\ tracker_disk.restarts = 1
    /\ tracker_disk.saved # NoneOpt
    /\ Len(recent_conditions) < Len(Get(tracker_disk.saved).recent_conditions)
    /\ \E i \in DOMAIN recent_conditions :
           recent_conditions[i] \in
               {Get(tracker_disk.saved).recent_conditions[j] :
                    j \in DOMAIN Get(tracker_disk.saved).recent_conditions}
    /\ \E k \in DOMAIN patterns : patterns[k].min_time_to_event = Inf
    /\ \E k \in DOMAIN patterns : patterns[k].event_after_count > 0
    /\ replayed

\* C25: the condition deque never holds more entries than its cap, and while
\* the process runs it holds no condition older than the 72h lookback window.
ConditionDequeCappedAndYoung ==
    /\ Len(recent_conditions) <= RecentConditionsMaxLen
    /\ \A i \in DOMAIN recent_conditions :
           now - recent_conditions[i].timestamp <= LOOKBACK_WINDOW_HOURS * 3600

\* C26: when one RecordCondition and one CheckEvents have both run, on their
\* two threads, neither has failed and the deque and the pattern table are
\* those of one of the two serial orders of the two calls.
TrackerCallsSerializable ==
    (tracker_threads.rec.pc = "done" /\ tracker_threads.mat.pc = "done") =>
        /\ ~tracker_threads.failed
        /\ <<recent_conditions, patterns>> \in {SerialRecordThenMatch, SerialMatchThenRecord}

\* C30: every check a _check_rule call makes is in the calibration log exactly
\* once, with the name of the predicate, the value compared, the threshold
\* value, and a triggered flag that is true exactly when an anomaly came of it.
ChecksLoggedOnceWithOutcome ==
    \A k \in DOMAIN det_last.calls :
        LET call   == det_last.calls[k]
            rule   == det_rules[call.rule]
            logged == call.logged
            window == CallWindow(det_history, call)
        IN /\ \A m, n \in DOMAIN logged :
                  logged[m].threshold_name = logged[n].threshold_name => m = n
           /\ rule.max_absolute_value # NoneOpt =>
                  \E n \in DOMAIN logged :
                      /\ logged[n].threshold_name = "max"
                      /\ logged[n].value = <<call.value, 1>>
                      /\ logged[n].threshold_value = Get(rule.max_absolute_value)
           /\ ( /\ PureChangeRule(rule)
                /\ Len(window) >= 2
                /\ window[1].value # 0 ) =>
                  \E n \in DOMAIN logged :
                      /\ logged[n].threshold_name = "change_pct"
                      /\ logged[n].value[1] * Abs(window[1].value)
                             = Abs(call.value - window[1].value) * 100 * logged[n].value[2]
                      /\ logged[n].threshold_value = Get(rule.min_change_percent)
           /\ \A n \in DOMAIN logged :
                  logged[n].triggered <=> (call.outcome = "anomaly" /\ n = Len(logged))

ProcessSurvivesFieldError ==
    det_last.event # NoneOpt =>
        LET event == Get(det_last.event)
        IN /\ ~det_last.raised
           /\ \A i \in DOMAIN event.payload :
                  (\E r \in DOMAIN det_rules :
                       _matches_pattern(<<event.source>> \o event.payload[i].key,
                                        det_rules[r].parameter_pattern))
                      => \E k \in DOMAIN det_last.calls :
                             det_last.calls[k].param = <<event.source>> \o event.payload[i].key

\* C32: within one _check_rule call the predicates are tested in the order
\* max, min, trigger_above, change_pct and none is tested after one that
\* triggered; a process call checks no further rule for a parameter that has
\* its anomaly, so it returns at most one anomaly per parameter.
PredicatesInOrderOneAnomaly ==
    LET Rank(name) == CASE name = "max" -> 1
                        [] name = "min" -> 2
                        [] name = "trigger_above" -> 3
                        [] name = "change_pct" -> 4
    IN /\ \A k \in DOMAIN det_last.calls :
              LET logged == det_last.calls[k].logged
                  rule   == det_rules[det_last.calls[k].rule]
              IN /\ \A m, n \in DOMAIN logged :
                        m < n => /\ Rank(logged[m].threshold_name) < Rank(logged[n].threshold_name)
                                 /\ ~logged[m].triggered
                 /\ \A n \in DOMAIN logged :
                        /\ (Rank(logged[n].threshold_name) > 1
                                /\ rule.max_absolute_value # NoneOpt)
                               => \E m \in DOMAIN logged : logged[m].threshold_name = "max"
                        /\ (Rank(logged[n].threshold_name) > 2
                                /\ rule.min_absolute_value # NoneOpt)
                               => \E m \in DOMAIN logged : logged[m].threshold_name = "min"
       /\ \A j, k \in DOMAIN det_last.calls :
              (j < k /\ det_last.calls[j].param = det_last.calls[k].param)
                  => det_last.calls[j].outcome # "anomaly"
       /\ \A a, b \in DOMAIN det_last.anomalies :
              det_last.anomalies[a].parameter = det_last.anomalies[b].parameter => a = b

\* a process call in which the first matching rule gave the anomaly of a
\* parameter whose value also exceeds the maximum of a later matching rule,
\* after a call in which a rule with two absolute predicates logged both
SeveralRulesOneAnomalyWitness ==
    /\ Len(det_last.anomalies) = 1
    /\ Len(det_last.calls) = 1
    /\ det_last.calls[1].outcome = "anomaly"
    /\ det_last.calls[1].logged[Len(det_last.calls[1].logged)].threshold_name = "change_pct"
    /\ \E r \in DOMAIN det_rules :
           /\ r > det_last.calls[1].rule
           /\ _matches_pattern(det_last.calls[1].param, det_rules[r].parameter_pattern)
           /\ det_rules[r].max_absolute_value # NoneOpt
           /\ det_last.calls[1].value > Get(det_rules[r].max_absolute_value)

\* C33: the cluster returned for a new anomaly lists every anomaly within the
\* cluster window at the time of the call, carries the new anomaly's
\* timestamp, and has probability 0.10, 0.05, 0.01, 0.001 at levels 2, 3, 4, 5
\* (in thousandths: 100, 50, 10, 1).
ClusterListsWholeWindow ==
    cluster_last.cluster # NoCluster =>
        LET cluster == cluster_last.cluster
            within  == SelectSeq(recent_anomalies,
                                 LAMBDA a : cluster_last.at - a.timestamp < 30)
        IN /\ cluster.anomalies = [i \in DOMAIN within |-> within[i].anomaly]
           /\ cluster.timestamp = cluster_last.anomaly.timestamp
           /\ cluster.level = 2 => cluster.probability = 100
           /\ cluster.level = 3 => cluster.probability = 50
           /\ cluster.level = 4 => cluster.probability = 10
           /\ cluster.level = 5 => cluster.probability = 1

\* C33, amended: as above for a cluster of level 2 or more, while a cluster of
\* level 1 lists the new anomaly alone; anomalies of three sources added at
\* 1000, 1010 and 1020 make the third cluster one of level 3 with 3 anomalies,
\* timestamp 1020 and probability 0.05.
ClusterListsWindowFromLevelTwo ==
    cluster_last.cluster # NoCluster =>
        LET cluster == cluster_last.cluster
            within  == SelectSeq(recent_anomalies,
                                 LAMBDA a : cluster_last.at - a.timestamp < 30)
            stamps  == [i \in DOMAIN recent_anomalies |-> recent_anomalies[i].timestamp]
            sources == {recent_anomalies[i].anomaly.sensor_source : i \in DOMAIN recent_anomalies}
        IN /\ cluster.level >= 2 =>
                  cluster.anomalies = [i \in DOMAIN within |-> within[i].anomaly]
           /\ cluster.level = 1 => cluster.anomalies = <<cluster_last.anomaly>>
           /\ cluster.timestamp = cluster_last.anomaly.timestamp
           /\ cluster.level = 2 => cluster.probability = 100
           /\ cluster.level = 3 => cluster.probability = 50
           /\ cluster.level = 4 => cluster.probability = 10
           /\ cluster.level = 5 => cluster.probability = 1
           /\ ( /\ stamps = <<1000, 1010, 1020>>
                /\ Cardinality(sources) = 3
                /\ cluster_last.at = 1020
                /\ cluster_last.anomaly.timestamp = 1020 ) =>
                  /\ cluster.level = 3
                  /\ Len(cluster.anomalies) = 3
                  /\ cluster.timestamp = 1020
                  /\ cluster.probability = 50

\* the third cluster of the scenario has been returned
ThirdClusterWitness ==
    /\ cluster_last.at = 1020
    /\ cluster_last.anomaly.timestamp = 1020
    /\ [i \in DOMAIN recent_anomalies |-> recent_anomalies[i].timestamp] = <<1000, 1010, 1020>>
    /\ Cardinality({recent_anomalies[i].anomaly.sensor_source : i \in DOMAIN recent_anomalies}) = 3
    /\ cluster_last.cluster.level = 3

\* C39: every add_anomaly call returns a cluster of level 1 or more whose
\* anomalies include the anomaly just added.
AddAnomalyReturnsOwnCluster ==
    added > 0 =>
        /\ cluster_last.cluster.level >= 1
        /\ \E i \in DOMAIN cluster_last.cluster.anomalies :
               cluster_last.cluster.anomalies[i] = cluster_last.anomaly

\* the snapshots appended by the step, and the 24-hour mean of the history before it
AppendedByStep == (Len(index_history) + 1)..Len(index_history')

RecentBefore == SelectSeq(index_history, LAMBDA h : h.timestamp > now - 24 * 3600)

\* the stored ratio r (in hundredths) is index / baseline for the stored index
\* (in tenths) and the baseline b[1] / b[2], up to the rounding of both
RatioIsIndexOverBaseline(r, index, b) ==
    Abs(10 * r * b[1] - 100 * index * b[2]) <= 50 * b[2] + 5 * b[1]

HundredOfTwenty(history, t) ==
    /\ Len(history) = 100
    /\ \A i \in DOMAIN history : history[i].index = 200 /\ history[i].timestamp > t - 24 * 3600

\* C34: the baseline used for a snapshot is the mean index of the snapshots of
\* the last 24h, or 15 when fewer than 10 such snapshots exist, recomputed at
\* most once per hour, and baselineRatio = index / baseline; after 100
\* snapshots of index 20 inside the last 24h a fresh snapshot of index 60 has
\* baseline 20, baselineRatio 3.0 and status critical
BaselineIsDayMeanAndRatioQuotient ==
    [][ index_calls' = index_calls + 1 =>
          /\ IF now - last_baseline_update > 3600
             THEN baseline_cache' = IF Len(RecentBefore) < 10 THEN <<15, 1>>
                                    ELSE <<SumIndex(RecentBefore, 1), 10 * Len(RecentBefore)>>
             ELSE baseline_cache' = baseline_cache
          /\ \A i \in AppendedByStep :
                 RatioIsIndexOverBaseline(index_history'[i].baseline_ratio,
                                          index_history'[i].index, baseline_cache')
          /\ ( /\ HundredOfTwenty(index_history, now)
               /\ Len(index_history') = 101
               /\ index_history'[101].index = 600 )
                 => /\ baseline_cache'[1] = 20 * baseline_cache'[2]
                    /\ index_history'[101].baseline_ratio = 300
                    /\ index_history'[101].status = "critical" ]_vars

\* C34 (amended): as above, but baselineRatio = index / baseline only for a
\* positive baseline and is 1.0 for a baseline of 0, and the fresh snapshot
\* has baseline 20 and baselineRatio 3.0 when its call recomputes the baseline
BaselineIsDayMeanAndRatioGuarded ==
    [][ index_calls' = index_calls + 1 =>
          /\ IF now - last_baseline_update > 3600
             THEN baseline_cache' = IF Len(RecentBefore) < 10 THEN <<15, 1>>
                                    ELSE <<SumIndex(RecentBefore, 1), 10 * Len(RecentBefore)>>
             ELSE baseline_cache' = baseline_cache
          /\ \A i \in AppendedByStep :
                 IF baseline_cache'[1] > 0
                 THEN RatioIsIndexOverBaseline(index_history'[i].baseline_ratio,
                                               index_history'[i].index, baseline_cache')
                 ELSE index_history'[i].baseline_ratio = 100
          /\ ( /\ HundredOfTwenty(index_history, now)
               /\ Len(index_history') = 101
               /\ index_history'[101].index = 600 )
                 => /\ now - last_baseline_update > 3600
                        => /\ baseline_cache'[1] = 20 * baseline_cache'[2]
                           /\ index_history'[101].baseline_ratio = 300
                    /\ index_history'[101].status = "critical" ]_vars

\* a fresh snapshot of index 60 after 100 snapshots of index 20, on a baseline
\* recomputed from them
FreshSnapshotOnDayMeanWitness ==
    /\ Len(index_history) = 101
    /\ HundredOfTwenty(SubSeq(index_history, 1, 100), index_history[101].timestamp)
    /\ index_history[101].index = 600
    /\ index_history[101].baseline_ratio = 300
    /\ last_baseline_update = index_history[101].timestamp
    /\ baseline_cache = <<20000, 1000>>

\* C35: a threshold with at least 1000 checks gets the value the table gives for
\* the suffix of its name: .min and .max p90 above 5 x target, p95 above
\* 2 x target, p99 below 0.5 x target; .trigger_above and .change_pct p95 above
\* 2 x target, p90 below 0.5 x target; none in between; 5000 checks of
\* quantum_rng.randomness_score.min at rate 0.75 give p90 with confidence high
RecommendationBySuffix ==
    [][ (calib_log'.calls = calib_log.calls + 1 /\ calib_log'.last.status = "completed") =>
          LET analyses == Get(calib_log'.last.analyses)
              recs     == calib_log'.last.recommendations
              RateOver(a, k) == a.triggered_count * 100 > k * a.total_checks
              RateUnder(a)    == a.triggered_count * 100 < a.total_checks
              Expected(n, a) ==
                  IF a.total_checks < 1000 THEN NoneOpt
                  ELSE IF n[Len(n)] \in {"min", "max"}
                  THEN IF RateOver(a, 10) THEN Some(a.p90)
                       ELSE IF RateOver(a, 4) THEN Some(a.p95)
                       ELSE IF RateUnder(a) THEN Some(a.p99)
                       ELSE NoneOpt
                  ELSE IF n[Len(n)] \in {"trigger_above", "change_pct"}
                  THEN IF RateOver(a, 4) THEN Some(a.p95)
                       ELSE IF RateUnder(a) THEN Some(a.p90)
                       ELSE NoneOpt
                  ELSE IF RateOver(a, 4) \/ RateUnder(a) THEN Some(a.p95)
                  ELSE NoneOpt
          IN /\ \A n \in ThresholdNames :
                    ~analyses[n].raises =>
                        IF Expected(n, analyses[n]) = NoneOpt
                        THEN \A i \in DOMAIN recs : recs[i].threshold_name # n
                        ELSE \E i \in DOMAIN recs :
                                 /\ recs[i].threshold_name = n
                                 /\ recs[i].recommended_value = Get(Expected(n, analyses[n]))
             /\ ( /\ analyses[QRNG_MIN].total_checks = 5000
                  /\ analyses[QRNG_MIN].triggered_count = 3750 )
                    => \E i \in DOMAIN recs :
                           /\ recs[i].threshold_name = QRNG_MIN
                           /\ recs[i].recommended_value = analyses[QRNG_MIN].p90
                           /\ recs[i].recommended_value < recs[i].current_value
                           /\ recs[i].confidence = "high" ]_vars

\* C36: with flush_buffer running beside a publish whose delivery to the same
\* subscriber fails on a full backlog, the event flush_buffer takes out of the
\* backlog is one it has delivered successfully, and that event is no longer
\* in the backlog afterwards
FlushRemovesWhatItDelivered ==
    [][ (flusher.pc = "pop" /\ flusher'.pc = "peek") =>
          /\ Head(ObjectOf(flusher.sub).buffer) \in flusher.handled
          /\ Head(ObjectOf(flusher.sub).buffer) = Get(flusher.event)
          /\ \A k \in DOMAIN (ObjectOf(flusher.sub).buffer)' :
                 (ObjectOf(flusher.sub).buffer)'[k] # Get(flusher.event) ]_vars

InSomeFile(id) ==
    \E f \in store_files : \E k \in DOMAIN f.records : f.records[k].id = id

\* C37: a valid record passed to write_record is eventually in a file of the
\* store, also when a record lacking timestamp or source was written to the
\* same source before or after it
ValidRecordsEventuallyPersisted ==
    \A id \in 1..MaxWritten :
        ( /\ id <= Len(appended)
          /\ appended[id].has_timestamp
          /\ appended[id].has_source ) ~> InSomeFile(id)

\* C38: after a crash and restart at any point, also between the two files of
\* one save, every pattern has 0 <= event_after_count <= condition_count and no
\* condition instance has counted more than once for an event type
CountsAndCreditSurviveCrash ==
    tracker_disk.restarts > 0 =>
        /\ \A k \in DOMAIN patterns :
               /\ 0 <= patterns[k].event_after_count
               /\ patterns[k].event_after_count <= patterns[k].condition_count
        /\ \A k \in DOMAIN credit : credit[k] <= 1

\* C40: a publish issued from inside a subscriber callback finds the bus lock
\* free when it takes it, has returned (after calling every subscriber whose
\* filter matches the nested event) before the outer publish returns, and
\* the subscriber that asked for DATA events only is called with DATA events only
PositionIn(s, x) == CHOOSE j \in DOMAIN s : s[j] = x
AsksFor(sub, event_type) ==
    \/ sub.filter = NoneOpt
    \/ Get(sub.filter).event_types = NoneOpt
    \/ \E j \in DOMAIN Get(Get(sub.filter).event_types) :
            Get(Get(sub.filter).event_types)[j] = event_type
NestedPublishCompletesInsideOuter ==
    /\ \A d \in DOMAIN nest.stack :
            nest.stack[d].pc = "acquire" => nest.lock = 0
    /\ (nest.stack # <<>> => ENABLED NestNext)
    /\ \A e \in DOMAIN nest.parent :
            (nest.parent[e] # 0 /\ InSeq(nest.parent[e], nest.returned)) =>
                /\ InSeq(e, nest.returned)
                /\ PositionIn(nest.returned, e) < PositionIn(nest.returned, nest.parent[e])
    /\ \A e \in DOMAIN nest.parent :
            (nest.parent[e] # 0 /\ InSeq(e, nest.returned)) =>
                \A k \in DOMAIN nest.subs :
                    AsksFor(nest.subs[k], "anomaly") =>
                        \E j \in DOMAIN nest.log :
                            nest.log[j].sub = k /\ nest.log[j].event.n = e
    /\ \A j \in DOMAIN nest.log :
            ~AsksFor(nest.subs[nest.log[j].sub], "anomaly") =>
                nest.log[j].event.event_type = "data"
NestedAnomalyDeliveredWitness ==
    \E e \in DOMAIN nest.parent :
        /\ nest.parent[e] # 0
        /\ InSeq(e, nest.returned)
        /\ InSeq(nest.parent[e], nest.returned)
        /\ nest.stack = <<>>
        /\ \E j \in DOMAIN nest.log :
               /\ nest.log[j].event.n = e
               /\ nest.log[j].depth = 2
               /\ ~nest.subs[nest.log[j].sub].detector
        /\ \E k \in DOMAIN nest.subs :
               /\ nest.subs[k].detector
               /\ \A j \in DOMAIN nest.log : nest.log[j].sub = k => nest.log[j].event.n # e

====
